---- MODULE Spec2Model ----
(***************************************************************************)
(* Tile world, world generator, swept AABB collision, actor update,        *)
(* health and weather of the Terraria clone prototype.                     *)
(*                                                                         *)
(* Number representation.  The program computes in IEEE doubles.  Here     *)
(* lengths and velocities are fixed-point integers in tenths of a pixel    *)
(* (PX units per pixel), which represents every constant of the physics    *)
(* exactly (0.6, 0.9, 0.5, 5.2, 12.5, 18); the one product with FRICTION   *)
(* (0.85) is truncated toward zero to that resolution.  Times are counted  *)
(* in ticks of 1/60 s, the unit of the normalised frame delta dt, so that  *)
(* the code's "dt / 60" seconds is dt ticks.  Health is in the program's   *)
(* units, with the regeneration per tick scaled up to a whole number.      *)
(*                                                                         *)
(* The world and the durations are scaled down so that TLC can enumerate   *)
(* them; every scaled quantity is a named definition with the source       *)
(* value in its comment.                                                   *)
(***************************************************************************)
EXTENDS Integers, Sequences, FiniteSets, TLC

----------------------------------------------------------------------------
(* Config (part_001:11-21).  Lengths in tenths of a pixel. *)

TILE_SIZE == 240            \* 24 px
PX == TILE_SIZE \div 24     \* units per pixel
WORLD_WIDTH == 5            \* tiles; 200 in the source, scaled
WORLD_HEIGHT == 7           \* tiles; 120 in the source, scaled
GRAVITY == 6                \* 0.6 px per step
TERMINAL_VELOCITY == 180    \* 18 px per step
MOVE_ACCEL == 9             \* 0.9
AIR_ACCEL == 5              \* 0.5
FRICTION == 85              \* 0.85, as a percentage
JUMP_VELOCITY == -125       \* -12.5
MAX_RUN_SPEED == 52         \* 5.2
REACH == 6                  \* tiles
PLAYER_WIDTH == 180         \* player.width  = 18 px
PLAYER_HEIGHT == 340        \* player.height = 34 px

(* Tile IDs (part_001:28-38). *)
TILE_AIR == 0
TILE_GRASS == 1
TILE_DIRT == 2
TILE_STONE == 3
TILE_WOOD == 4
TILE_SAND == 5
TILE_GLASS == 6
TILE_TORCH == 7
TILE_BRICK == 8
TILES == TILE_AIR .. TILE_BRICK

Max(a, b) == IF a >= b THEN a ELSE b
Min(a, b) == IF a <= b THEN a ELSE b
Abs(a) == IF a < 0 THEN -a ELSE a
Sign(a) == IF a > 0 THEN 1 ELSE IF a < 0 THEN -1 ELSE 0

COLS == 0 .. WORLD_WIDTH - 1
ROWS == 0 .. WORLD_HEIGHT - 1

(* new Array(WORLD_HEIGHT).fill(0).map(() => new Array(WORLD_WIDTH).fill(TILE.AIR)) *)
EmptyWorld == [y \in ROWS |-> [x \in COLS |-> TILE_AIR]]

----------------------------------------------------------------------------
(* World helpers, as pure functions of the grid w. *)

inBounds(tx, ty) == tx >= 0 /\ ty >= 0 /\ tx < WORLD_WIDTH /\ ty < WORLD_HEIGHT

isSolid(tileId) == tileId # TILE_AIR

(* getTile as it would be were the outside of the grid empty. *)
getTileOpen(w, tx, ty) == IF ~inBounds(tx, ty) THEN TILE_AIR ELSE w[ty][tx]

getTile(w, tx, ty) == IF ~inBounds(tx, ty) THEN TILE_STONE ELSE w[ty][tx]

setTile(w, tx, ty, id) == IF ~inBounds(tx, ty) THEN w ELSE [w EXCEPT ![ty][tx] = id]

----------------------------------------------------------------------------
(* mulberry32: 32-bit values are pairs <<high 16 bits, low 16 bits>>, so   *)
(* that no intermediate result leaves TLC's integer range and every        *)
(* operation wraps modulo 2^32 as Math.imul, ^, |, >>> and ToUint32 do.    *)

HALF == 65536

(* a ^ b, by bits, for 2-, 4-, 8- and 16-bit operands *)
Xor2(a, b) == ((a + b) % 2) + 2 * (((a \div 2) + (b \div 2)) % 2)
Xor4(a, b) == Xor2(a % 4, b % 4) + 4 * Xor2(a \div 4, b \div 4)
Xor8(a, b) == Xor4(a % 16, b % 16) + 16 * Xor4(a \div 16, b \div 16)
Xor16(a, b) == Xor8(a % 256, b % 256) + 256 * Xor8(a \div 256, b \div 256)

Xor32(a, b) == <<Xor16(a[1], b[1]), Xor16(a[2], b[2])>>

Add32(a, b) ==
    LET s == a[2] + b[2]
    IN  <<(a[1] + b[1] + (s \div HALF)) % HALF, s % HALF>>

(* a >>> k for 0 < k < 16; p = 2^k *)
Shr32(a, p) == <<a[1] \div p, (a[2] \div p) + (a[1] % p) * (HALF \div p)>>

(* (a * b) mod 2^16 and Math.imul, by 8-bit pieces *)
MulMod16(a, b) == ((a % 256) * b + (((a \div 256) * b) % 256) * 256) % HALF

Imul(a, b) ==
    LET p1 == (a[2] \div 256) * b[2]
        p0 == (a[2] % 256) * b[2]
        m  == (p1 % 256) * 256 + p0
        c  == (p1 \div 256) + (m \div HALF)
    IN  <<(c + MulMod16(a[1], b[2]) + MulMod16(a[2], b[1])) % HALF, m % HALF>>

Or1(a) == <<a[1], a[2] + 1 - (a[2] % 2)>>                               \* t | 1
Or61(a) == <<a[1], (a[2] \div 64) * 64 + 61 + ((a[2] \div 2) % 2) * 2>>   \* t | 61

MULBERRY_INC == <<27947, 31221>>    \* 0x6d2b79f5

U32 == (0 .. HALF - 1) \X (0 .. HALF - 1)

(* The statements of the closure, each a function of the value of t (or a) *)
(* before it.                                                              *)
Advance[a \in U32] == Add32(a, MULBERRY_INC)            \* a += 0x6d2b79f5
Mix15[t \in U32] == Imul(Xor32(t, Shr32(t, 32768)), Or1(t))
                                                        \* Math.imul(t ^ (t >>> 15), t | 1)
Mix7[t \in U32] == Xor32(t, Add32(t, Imul(Xor32(t, Shr32(t, 128)), Or61(t))))
                                                        \* t ^= t + Math.imul(t ^ (t >>> 7), t | 61)
Mix14[t \in U32] == Xor32(t, Shr32(t, 16384))           \* (t ^ (t >>> 14)) >>> 0

(* One call of the closure mulberry32(a) returns: the new a and the 32-bit *)
(* numerator u of the returned double u / 4294967296.                      *)
mulberry32[a \in U32] == [a |-> Advance[a], u |-> Mix14[Mix7[Mix15[Advance[a]]]]]

Seed32(seed) == <<seed \div HALF, seed % HALF>>

(* rand() < k / m, for the double u / 2^32: u * m < k * 2^32 *)
RandLess(u, k, m) == (u[1] * m + ((u[2] * m) \div HALF)) < k * HALF

(* Math.floor(rand() * n) *)
RandInt(u, n) == (u[1] * n + ((u[2] * n) \div HALF)) \div HALF

(* Math.sign((rand() - 0.5) * 2) *)
RandSign(u) == IF u[1] > 32768 \/ (u[1] = 32768 /\ u[2] > 0) THEN 1
               ELSE IF u = <<32768, 0>> THEN 0 ELSE -1

----------------------------------------------------------------------------
(* generateWorld.  The depths and lengths of the generator are scaled with *)
(* the world; the source value is in each comment.                         *)

DEFAULT_SEED == 1337        \* generateWorld(seed = 1337)
SURFACE_MIN == 3            \* Math.max(20, ...)
SURFACE_MARGIN == 2         \* Math.min(WORLD_HEIGHT - 15, h)
BIOME_MIN_LEN == 2          \* 20 + ...
BIOME_LEN_SPAN == 2         \* ... Math.floor(rand() * 30)
STONE_DEPTH == 2            \* y > groundY + 20
TOP_DEPTH == 1              \* y > groundY + 3
PATCH_MIN_DEPTH == 1        \* sy = groundY + 5 + ...
PATCH_DEPTH_SPAN == 2       \* ... Math.floor(rand() * 10)
PATCH_MIN_H == 1            \* sh = 3 + ...
PATCH_H_SPAN == 2           \* ... Math.floor(rand() * 4)
PATCH_MIN_W == 2            \* sw = 3 + ...
PATCH_W_SPAN == 2           \* ... Math.floor(rand() * 6)
TREE_MIN_H == 1             \* treeHeight = 5 + ...
TREE_H_SPAN == 2            \* ... Math.floor(rand() * 3)

Worlds == [ROWS -> [COLS -> TILES]]
BIOMES == {"forest", "desert"}

(* h after one column of the random walk, from the two draws r1 and r2. *)
WalkStep(h, r1, r2) ==
    Max(SURFACE_MIN, Min(WORLD_HEIGHT - SURFACE_MARGIN,
        h + RandSign(r1.u) * (IF RandLess(r2.u, 55, 100) THEN 1 ELSE 0)))

(* One iteration of the heights loop, on the loop's state st: column x,    *)
(* height h, generator state a, and the heights pushed (heights[x] is      *)
(* hs[x + 1]).                                                             *)
HeightColumn(st, r1, r2) ==
    [x |-> st.x + 1, h |-> WalkStep(st.h, r1, r2), a |-> r2.a,
     hs |-> Append(st.hs, WalkStep(st.h, r1, r2))]
HeightDraw(st, r1) == HeightColumn(st, r1, mulberry32[r1.a])
HeightStep(st) == HeightDraw(st, mulberry32[st.a])

(* heights: the bounded random walk; two draws per column. *)
HeightStates == [x : Nat, h : Int, a : U32, hs : Seq(Int)]
HeightWalk[st \in HeightStates] ==
    IF st.x >= WORLD_WIDTH THEN st ELSE HeightWalk[HeightStep(st)]

(* biomeLength = 20 + Math.floor(rand() * 30), from the draw r *)
BiomeLength(r) == BIOME_MIN_LEN + RandInt(r.u, BIOME_LEN_SPAN)

OtherBiome(b) == IF b = "forest" THEN "desert" ELSE "forest"

(* One iteration of the biomes loop, on the loop's state st: column x,     *)
(* currentBiome, biomeLength, generator state a, and the biomes pushed.    *)
BiomeSwitch(st, r) ==
    [x |-> st.x + 1, currentBiome |-> OtherBiome(st.currentBiome),
     biomeLength |-> BiomeLength(r) - 1, a |-> r.a,
     bs |-> Append(st.bs, OtherBiome(st.currentBiome))]
BiomeStep(st) ==
    IF st.biomeLength <= 0 THEN BiomeSwitch(st, mulberry32[st.a])
    ELSE [x |-> st.x + 1, currentBiome |-> st.currentBiome,
          biomeLength |-> st.biomeLength - 1, a |-> st.a,
          bs |-> Append(st.bs, st.currentBiome)]

(* biomes: contiguous runs, alternating; one draw per run. *)
BiomeStates == [x : Nat, currentBiome : BIOMES, biomeLength : Int, a : U32,
                bs : Seq(BIOMES)]
BiomeRuns[st \in BiomeStates] ==
    IF st.x >= WORLD_WIDTH THEN st ELSE BiomeRuns[BiomeStep(st)]

(* The tile the layering loop writes at row y of a column. *)
LayerTile(y, groundY, biome) ==
    IF y > groundY + STONE_DEPTH THEN TILE_STONE
    ELSE IF y > groundY + TOP_DEPTH THEN TILE_DIRT
    ELSE IF y = groundY THEN (IF biome = "desert" THEN TILE_SAND ELSE TILE_GRASS)
    ELSE IF y > groundY /\ y <= groundY + TOP_DEPTH
         THEN (IF biome = "desert" THEN TILE_SAND ELSE TILE_DIRT)
    ELSE TILE_AIR

LayerColumn(w, x, groundY, biome) ==
    [y \in ROWS |-> [w[y] EXCEPT ![x] = LayerTile(y, groundY, biome)]]

(* The stone patch loops: every non-Air cell of the rectangle, as the grid *)
(* stands when the patch is written, becomes Stone.                        *)
StonePatch(w, x, sy, sh, sw) ==
    [yy \in ROWS |-> [xx \in COLS |->
        IF /\ yy >= sy /\ yy < sy + sh
           /\ xx >= x /\ xx < x + sw
           /\ w[yy][xx] # TILE_AIR
        THEN TILE_STONE ELSE w[yy][xx]]]

(* The trunk loop. *)
Trunk(w, x, groundY, treeHeight) ==
    [yy \in ROWS |-> [xx \in COLS |->
        IF xx = x /\ yy <= groundY - 1 /\ yy >= groundY - treeHeight /\ yy >= 0
        THEN TILE_WOOD ELSE w[yy][xx]]]

(* The patch written from its three draws r2 (sy), r3 (sh), r4 (sw): the   *)
(* grid and the generator state after them.                                *)
PatchWrite(w, x, groundY, r2, r3, r4) ==
    [w |-> StonePatch(w, x,
                      groundY + PATCH_MIN_DEPTH + RandInt(r2.u, PATCH_DEPTH_SPAN),
                      PATCH_MIN_H + RandInt(r3.u, PATCH_H_SPAN),
                      PATCH_MIN_W + RandInt(r4.u, PATCH_W_SPAN)),
     a |-> r4.a]
PatchDraw3(w, x, groundY, r2, r3) == PatchWrite(w, x, groundY, r2, r3, mulberry32[r3.a])
PatchDraw2(w, x, groundY, r2) == PatchDraw3(w, x, groundY, r2, mulberry32[r2.a])
Patch(w, x, groundY, a) == PatchDraw2(w, x, groundY, mulberry32[a])

(* if (rand() < 0.1) { patch }, r1 being that draw *)
PatchStep(w, x, groundY, r1) ==
    IF RandLess(r1.u, 10, 100) THEN Patch(w, x, groundY, r1.a) ELSE [w |-> w, a |-> r1.a]

(* if (biome === 'forest' && rand() < 0.03) { trunk }, on the column c left *)
(* by the patch step *)
TreeWrite(w, x, groundY, r6) ==
    [w |-> Trunk(w, x, groundY, TREE_MIN_H + RandInt(r6.u, TREE_H_SPAN)), a |-> r6.a]
TreeDraw(w, x, groundY, r5) ==
    IF RandLess(r5.u, 3, 100) THEN TreeWrite(w, x, groundY, mulberry32[r5.a])
    ELSE [w |-> w, a |-> r5.a]
TreeStep(c, x, groundY, biome) ==
    IF biome = "forest" THEN TreeDraw(c.w, x, groundY, mulberry32[c.a]) ELSE c

(* One iteration of the column loop of part_001: the grid and the          *)
(* generator state it leaves.                                              *)
GenColumn(w, x, groundY, biome, a) ==
    TreeStep(PatchStep(LayerColumn(w, x, groundY, biome), x, groundY, mulberry32[a]),
             x, groundY, biome)

(* The column loop, on the loop's state st: the grid w, column x, and the  *)
(* generator state a, with the heights and biomes computed before it.      *)
GenNext(st, c) == [st EXCEPT !.w = c.w, !.x = st.x + 1, !.a = c.a]
GenStep(st) ==
    GenNext(st, GenColumn(st.w, st.x, st.heights[st.x + 1], st.biomes[st.x + 1], st.a))
GenStates == [w : Worlds, x : Nat, a : U32, heights : Seq(Int), biomes : Seq(BIOMES)]
GenColumns[st \in GenStates] ==
    IF st.x >= WORLD_WIDTH THEN st ELSE GenColumns[GenStep(st)]

SurfaceBase == (WORLD_HEIGHT * 55) \div 100     \* Math.floor(WORLD_HEIGHT * 0.55)

GenHeights(seed) == HeightWalk[[x |-> 0, h |-> SurfaceBase, a |-> Seed32(seed), hs |-> <<>>]]

BiomeFirst(r) ==
    BiomeRuns[[x |-> 0, currentBiome |-> "forest", biomeLength |-> BiomeLength(r),
               a |-> r.a, bs |-> <<>>]]
GenBiomes(a) == BiomeFirst(mulberry32[a])

GenFromBiomes(w, hw, br) ==
    GenColumns[[w |-> w, x |-> 0, a |-> br.a, heights |-> hw.hs, biomes |-> br.bs]].w
GenFromHeights(w, hw) == GenFromBiomes(w, hw, GenBiomes(hw.a))

(* generateWorld(seed) of part_001, run on the grid w: the grid it leaves. *)
generateWorld(w, seed) == GenFromHeights(w, GenHeights(seed))

(* One iteration of the column loop of main.js: no biomes, no trunks, and  *)
(* the patch test is Math.random() < 0.1, coin being its outcome.          *)
GenColumnMain(w, x, groundY, a, coin) ==
    IF coin THEN Patch(LayerColumn(w, x, groundY, "forest"), x, groundY, a)
    ELSE [w |-> LayerColumn(w, x, groundY, "forest"), a |-> a]

GenStepMain(st) ==
    GenNext(st, GenColumnMain(st.w, st.x, st.heights[st.x + 1], st.a, st.coins[st.x]))
GenMainStates == [w : Worlds, x : Nat, a : U32, heights : Seq(Int),
                  coins : [COLS -> BOOLEAN]]
GenColumnsMain[st \in GenMainStates] ==
    IF st.x >= WORLD_WIDTH THEN st ELSE GenColumnsMain[GenStepMain(st)]

GenMainFromHeights(w, hw, coins) ==
    GenColumnsMain[[w |-> w, x |-> 0, a |-> hw.a, heights |-> hw.hs, coins |-> coins]].w

(* generateWorld(seed) of main.js, with coins[x] the outcome of            *)
(* Math.random() < 0.1 at column x.                                        *)
generateWorldMain(w, seed, coins) == GenMainFromHeights(w, GenHeights(seed), coins)

----------------------------------------------------------------------------
(* Physics and collision. *)

(* Some row ty in top..bottom of column tx holds a solid tile. *)
ColumnHit(w, tx, top, bottom) == \E ty \in top .. bottom : isSolid(getTile(w, tx, ty))

(* Some column tx in left..right of row ty holds a solid tile. *)
RowHit(w, ty, left, right) == \E tx \in left .. right : isSolid(getTile(w, tx, ty))

(* The loop of the horizontal resolution, entered with `moved`. *)
RECURSIVE SweepX(_, _, _, _, _, _, _)
SweepX(w, px, py, pw, ph, dx, moved) ==
    LET dir    == Sign(dx)
        step   == Min(Abs(dx), TILE_SIZE)
        nextX  == px + Min(Abs(dx), moved + step) * dir
        left   == (nextX - pw \div 2) \div TILE_SIZE
        right  == (nextX + pw \div 2) \div TILE_SIZE
        top    == (py - ph \div 2) \div TILE_SIZE
        bottom == (py + ph \div 2 - PX) \div TILE_SIZE
    IN  IF moved >= Abs(dx) THEN [hit |-> FALSE, x |-> px + dx]
        ELSE IF ColumnHit(w, IF dir > 0 THEN right ELSE left, top, bottom)
        THEN [hit |-> TRUE,
              x |-> IF dir > 0 THEN right * TILE_SIZE - pw \div 2
                    ELSE (left + 1) * TILE_SIZE + pw \div 2]
        ELSE SweepX(w, px, py, pw, ph, dx, moved + step)

(* The loop of the vertical resolution, at the resolved newX. *)
RECURSIVE SweepY(_, _, _, _, _, _, _)
SweepY(w, newX, py, pw, ph, dy, moved) ==
    LET dir    == Sign(dy)
        step   == Min(Abs(dy), TILE_SIZE)
        nextY  == py + Min(Abs(dy), moved + step) * dir
        left   == (newX - pw \div 2) \div TILE_SIZE
        right  == (newX + pw \div 2) \div TILE_SIZE
        top    == (nextY - ph \div 2) \div TILE_SIZE
        bottom == (nextY + ph \div 2 - PX) \div TILE_SIZE
    IN  IF moved >= Abs(dy) THEN [hit |-> FALSE, y |-> py + dy]
        ELSE IF RowHit(w, IF dir > 0 THEN bottom ELSE top, left, right)
        THEN [hit |-> TRUE,
              y |-> IF dir > 0 THEN bottom * TILE_SIZE - ph \div 2
                    ELSE (top + 1) * TILE_SIZE + ph \div 2]
        ELSE SweepY(w, newX, py, pw, ph, dy, moved + step)

(* aabbVsTiles as it would be did it probe the row under the box when no   *)
(* vertical motion is requested.                                           *)
aabbVsTilesProbe(w, px, py, pw, ph, dx, dy) ==
    LET h == IF dx # 0 THEN SweepX(w, px, py, pw, ph, dx, 0)
             ELSE [hit |-> FALSE, x |-> px + dx]
        v == IF dy # 0 THEN SweepY(w, h.x, py, pw, ph, dy, 0)
             ELSE [hit |-> FALSE, y |-> py + dy]
        under == RowHit(w, (py + ph \div 2) \div TILE_SIZE,
                        (h.x - pw \div 2) \div TILE_SIZE, (h.x + pw \div 2) \div TILE_SIZE)
    IN  IF h.hit
        THEN [x |-> h.x, y |-> py, grounded |-> FALSE, hitX |-> TRUE, hitY |-> FALSE]
        ELSE [x |-> h.x, y |-> v.y,
              grounded |-> IF dy = 0 THEN under ELSE v.hit /\ dy > 0,
              hitX |-> FALSE, hitY |-> v.hit]

aabbVsTiles(w, px, py, pw, ph, dx, dy) ==
    LET h == IF dx # 0 THEN SweepX(w, px, py, pw, ph, dx, 0)
             ELSE [hit |-> FALSE, x |-> px + dx]
        v == IF dy # 0 THEN SweepY(w, h.x, py, pw, ph, dy, 0)
             ELSE [hit |-> FALSE, y |-> py + dy]
    IN  IF h.hit
        THEN [x |-> h.x, y |-> py, grounded |-> FALSE, hitX |-> TRUE, hitY |-> FALSE]
        ELSE [x |-> h.x, y |-> v.y, grounded |-> v.hit /\ dy > 0,
              hitX |-> FALSE, hitY |-> v.hit]

----------------------------------------------------------------------------
(* Game state. *)

VARIABLES
    world,          \* world[ty][tx]
    player,         \* x, y, vx, vy, onGround, wasOnGround, health, maxHealth,
                    \* invulnerableTime, lastDamageTime
    totalTime,      \* gameState.totalTime, in ticks
    weather,        \* gameState.weather: type, intensity (tenths), timeLeft (ticks),
                    \* particles (the length of the particle list)
    inventory,      \* gameState.inventory: a function on the tiles that are keys
    keys,           \* the held keys, as update reads them: left, right, jump
    mouse,          \* mouse.tx, mouse.ty, mouse.left, mouse.right
    selectedHotbar, \* index into HOTBAR
    call,           \* the last operation, what it was given and what it returned
    calls,          \* how many direct calls of the grid's operations were made
    lastGen,        \* the previous generateWorld call: variant, seed, resulting grid
    storage,        \* localStorage['terrariaCloneSave'], as the JSON value it holds
    lastSave        \* what the last saveGame was given, and whether it wrote the storage

vars == <<world, player, totalTime, weather, inventory, keys, mouse,
          selectedHotbar, call, calls, lastGen, storage, lastSave>>

HOTBAR == <<TILE_DIRT, TILE_STONE, TILE_WOOD, TILE_SAND, TILE_BRICK, TILE_GLASS,
            TILE_TORCH, TILE_GRASS, TILE_AIR>>     \* HOTBAR[selectedHotbar + 1]

MAX_HEALTH == 100               \* player.health, player.maxHealth
DAY_NIGHT_CYCLE_DURATION == 7   \* ticks; 600 s in the source, scaled
DAY_PORTION == 70               \* 0.7, as a percentage
INVULNERABLE_TIME == 2          \* ticks; 1 s in the source, scaled
REGEN_DELAY == 2                \* ticks; 5 s in the source, scaled
REGEN_RATE == 4                 \* health per tick; 0.01 per second in the source, scaled
LIGHTNING_MIN == 10             \* damagePlayer(10 + Math.floor(Math.random() * 10))
LIGHTNING_SPAN == 10
RAIN_MIN_TIME == 2              \* ticks; 30 s in the source, scaled
RAIN_TIME_SPAN == 2             \* ticks; 120 s in the source, scaled
STORM_MIN_TIME == 2             \* ticks; 20 s in the source, scaled
STORM_TIME_SPAN == 2            \* ticks; 60 s in the source, scaled
MAX_PARTICLES == 2              \* cap on the particle list the model follows

InitPlayer ==
    [x |-> (WORLD_WIDTH * TILE_SIZE) \div 2, y |-> 0, vx |-> 0, vy |-> 0,
     onGround |-> FALSE, wasOnGround |-> FALSE,
     health |-> MAX_HEALTH, maxHealth |-> MAX_HEALTH,
     invulnerableTime |-> 0, lastDamageTime |-> 0]

InitWeather == [type |-> "clear", intensity |-> 0, timeLeft |-> 0, particles |-> 0]

InitKeys == [left |-> FALSE, right |-> FALSE, jump |-> FALSE]

InitMouse == [tx |-> 0, ty |-> 0, left |-> FALSE, right |-> FALSE]

(* gameState.isDaytime as update sets it from totalTime. *)
isDaytime(t) == (t % DAY_NIGHT_CYCLE_DURATION) * 100 < DAY_PORTION * DAY_NIGHT_CYCLE_DURATION

(* gameState.inventory[t] || 0 *)
Count(inv, t) == IF t \in DOMAIN inv THEN inv[t] ELSE 0

Put(inv, t, n) == [k \in DOMAIN inv \cup {t} |-> IF k = t THEN n ELSE inv[k]]

spawnPlayerOnSurface(p, w) ==
    LET cx == WORLD_WIDTH \div 2
        grass == {y \in ROWS : getTile(w, cx, y) = TILE_GRASS}
        ys == CHOOSE y \in grass : \A z \in grass : y <= z
    IN  IF grass = {} THEN p
        ELSE [p EXCEPT !.x = (WORLD_WIDTH * TILE_SIZE) \div 2, !.y = (ys - 2) * TILE_SIZE]

----------------------------------------------------------------------------
(* Weather system.  rnd holds the outcomes of this frame's Math.random()   *)
(* draws and of what the particle positions decide.                        *)

startNewWeather(rnd) ==
    IF rnd.kind = "rain"
    THEN [type |-> "rain", intensity |-> rnd.intensity,
          timeLeft |-> RAIN_MIN_TIME + rnd.duration, particles |-> 0]
    ELSE [type |-> "storm", intensity |-> rnd.intensity,
          timeLeft |-> STORM_MIN_TIME + rnd.duration, particles |-> 0]

(* Countdown as it would be did the end of an episode leave its type. *)
CountdownKeepsType(wt, left) ==
    IF left <= 0
    THEN [type |-> wt.type, intensity |-> 0, timeLeft |-> left, particles |-> 0]
    ELSE [wt EXCEPT !.timeLeft = left]

(* Countdown as it would be did the end of an episode leave its particles. *)
CountdownKeepsParticles(wt, left) ==
    IF left <= 0
    THEN [type |-> "clear", intensity |-> 0, timeLeft |-> left, particles |-> wt.particles]
    ELSE [wt EXCEPT !.timeLeft = left]

(* The weather once timeLeft has been counted down to left. *)
Countdown(wt, left) ==
    IF left <= 0
    THEN [type |-> "clear", intensity |-> 0, timeLeft |-> left, particles |-> 0]
    ELSE [wt EXCEPT !.timeLeft = left]

(* The countdown and the start of new weather: the weather it leaves, and  *)
(* whether it called startNewWeather (rnd.start: Math.random() < 0.001 *   *)
(* dt came out true, which no draw does when dt is 0).                     *)
(* The countdown as it would be did it not subtract the frame's delta. *)
WeatherCountdownStalled(wt, dt, rnd) ==
    IF wt.timeLeft > 0
    THEN [weather |-> Countdown(wt, wt.timeLeft), started |-> FALSE]
    ELSE IF rnd.start /\ dt > 0 THEN [weather |-> startNewWeather(rnd), started |-> TRUE]
    ELSE [weather |-> wt, started |-> FALSE]

WeatherCountdown(wt, dt, rnd) ==
    IF wt.timeLeft > 0
    THEN [weather |-> Countdown(wt, wt.timeLeft - dt), started |-> FALSE]
    ELSE IF rnd.start /\ dt > 0 THEN [weather |-> startNewWeather(rnd), started |-> TRUE]
    ELSE [weather |-> wt, started |-> FALSE]

(* Particles added this frame. *)
ParticleCount(wt, dt) ==
    IF wt.type = "rain" THEN (wt.intensity * 3 * dt) \div 10
    ELSE (wt.intensity * 5 * dt) \div 10

(* updateWeatherParticles: the particle list after the frame (rnd.keep     *)
(* says whether the particles stay in view and in the air) and the grid    *)
(* after a rain drop may have turned the Sand tile it struck into Dirt.    *)
updateWeatherParticles(wt, w, dt, rnd, started) ==
    LET n == wt.particles + ParticleCount(wt, dt)
        kept == IF rnd.keep THEN Min(n, MAX_PARTICLES) ELSE 0
        c == rnd.weathered
        struck == /\ wt.type = "rain" /\ kept < n /\ c # <<>>
                  /\ getTile(w, c[1], c[2]) = TILE_SAND
    IN  IF wt.type = "clear" THEN [weather |-> wt, world |-> w, started |-> started]
        ELSE [weather |-> [wt EXCEPT !.particles = kept],
              world |-> IF struck THEN setTile(w, c[1], c[2], TILE_DIRT) ELSE w,
              started |-> started]

(* updateWeather: the weather and the grid it leaves, and whether it       *)
(* called startNewWeather.                                                 *)
WeatherParticles(c, w, dt, rnd) == updateWeatherParticles(c.weather, w, dt, rnd, c.started)
updateWeather(wt, w, dt, rnd) == WeatherParticles(WeatherCountdown(wt, dt, rnd), w, dt, rnd)

----------------------------------------------------------------------------
(* Player health system. *)

(* damagePlayer as it would be without its first line. *)
damagePlayerAlways(p, amount, now) ==
    [p EXCEPT !.health = Max(0, p.health - amount),
              !.invulnerableTime = INVULNERABLE_TIME,
              !.lastDamageTime = now]

damagePlayer(p, amount, now) ==
    IF p.invulnerableTime > 0 THEN p
    ELSE [p EXCEPT !.health = Max(0, p.health - amount),
                   !.invulnerableTime = INVULNERABLE_TIME,
                   !.lastDamageTime = now]

(* Math.max(0, Math.floor((player.vy - TERMINAL_VELOCITY * 0.7) * 5)) *)
FallDamage(vy) == Max(0, ((vy * 10 - TERMINAL_VELOCITY * 7) * 5) \div (10 * PX))

(* Regen as it would be without Math.min. *)
RegenUncapped(p, now, dt) ==
    IF p.health < p.maxHealth /\ now - p.lastDamageTime > REGEN_DELAY
    THEN [p EXCEPT !.health = p.health + REGEN_RATE * dt]
    ELSE p

(* Health regeneration (slow regen when not recently damaged). *)
Regen(p, now, dt) ==
    IF p.health < p.maxHealth /\ now - p.lastDamageTime > REGEN_DELAY
    THEN [p EXCEPT !.health = Min(p.maxHealth, p.health + REGEN_RATE * dt)]
    ELSE p

(* updatePlayerHealth as it would be without the death check. *)
DeathCheckNone(p, w) == p

(* Death check: respawn with full health. *)
DeathCheck(p, w) ==
    IF p.health <= 0
    THEN spawnPlayerOnSurface([p EXCEPT !.health = p.maxHealth], w)
    ELSE p

(* The condition of the lightning branch: storm, not daytime, the draw     *)
(* Math.random() < 0.0001 * dt, and the tile two rows up not solid.        *)
Lightning(p, w, wt, now, dt, rnd) ==
    /\ wt.type = "storm"
    /\ ~isDaytime(now)
    /\ rnd.lightning /\ dt > 0
    /\ ~isSolid(getTile(w, p.x \div TILE_SIZE, (p.y \div TILE_SIZE) - 2))

updatePlayerHealth(p, w, wt, now, dt, rnd) ==
    LET p1 == IF p.invulnerableTime > 0
              THEN [p EXCEPT !.invulnerableTime = p.invulnerableTime - dt] ELSE p
        falls == /\ p1.vy * 10 > TERMINAL_VELOCITY * 8
                 /\ p1.onGround /\ ~p1.wasOnGround
                 /\ FallDamage(p1.vy) > 0
        p2 == IF falls THEN damagePlayer(p1, FallDamage(p1.vy), now) ELSE p1
        p3 == [p2 EXCEPT !.wasOnGround = p2.onGround]
        strikes == Lightning(p3, w, wt, now, dt, rnd)
        p4 == IF strikes THEN damagePlayer(p3, LIGHTNING_MIN + rnd.damage, now) ELSE p3
        p5 == Regen(p4, now, dt)
    IN  DeathCheck(p5, w)

----------------------------------------------------------------------------
(* update: movement, and mining and placing. *)

(* vx * FRICTION, truncated toward zero *)
Friction(vx) == IF vx >= 0 THEN (vx * FRICTION) \div 100 ELSE -(((-vx) * FRICTION) \div 100)

(* The motion as it would be without the two clamps. *)
MoveUnclamped(p, w, k) ==
    LET accel == IF p.onGround THEN MOVE_ACCEL ELSE AIR_ACCEL
        vx1 == IF k.left /\ ~k.right THEN p.vx - accel
               ELSE IF k.right /\ ~k.left THEN p.vx + accel
               ELSE Friction(p.vx)
        jumps == k.jump /\ p.onGround
        vy1 == (IF jumps THEN JUMP_VELOCITY ELSE p.vy) + GRAVITY
        resultX == aabbVsTiles(w, p.x, p.y, PLAYER_WIDTH, PLAYER_HEIGHT, vx1, 0)
        resultY == aabbVsTiles(w, resultX.x, p.y, PLAYER_WIDTH, PLAYER_HEIGHT, 0, vy1)
    IN  [p EXCEPT !.x = resultX.x,
                  !.vx = IF resultX.hitX THEN 0 ELSE vx1,
                  !.y = resultY.y,
                  !.vy = IF resultY.hitY THEN 0 ELSE vy1,
                  !.onGround = resultY.grounded]

Move(p, w, k) ==
    LET accel == IF p.onGround THEN MOVE_ACCEL ELSE AIR_ACCEL
        vx1 == IF k.left /\ ~k.right THEN p.vx - accel
               ELSE IF k.right /\ ~k.left THEN p.vx + accel
               ELSE Friction(p.vx)
        vx2 == Max(-MAX_RUN_SPEED, Min(MAX_RUN_SPEED, vx1))
        jumps == k.jump /\ p.onGround
        vy1 == Min(TERMINAL_VELOCITY, (IF jumps THEN JUMP_VELOCITY ELSE p.vy) + GRAVITY)
        resultX == aabbVsTiles(w, p.x, p.y, PLAYER_WIDTH, PLAYER_HEIGHT, vx2, 0)
        resultY == aabbVsTiles(w, resultX.x, p.y, PLAYER_WIDTH, PLAYER_HEIGHT, 0, vy1)
    IN  [p EXCEPT !.x = resultX.x,
                  !.vx = IF resultX.hitX THEN 0 ELSE vx2,
                  !.y = resultY.y,
                  !.vy = IF resultY.hitY THEN 0 ELSE vy1,
                  !.onGround = resultY.grounded]

(* The gate as it would be with every tile in reach. *)
inReachAlways(p, m) == TRUE

(* dist <= REACH, with dist = Math.hypot(mouse.tx - pxTile, mouse.ty - pyTile) *)
inReach(p, m) ==
    LET ddx == m.tx * TILE_SIZE - p.x
        ddy == m.ty * TILE_SIZE - p.y
    IN  ddx * ddx + ddy * ddy <= (REACH * TILE_SIZE) * (REACH * TILE_SIZE)

(* intersectsX && intersectsY of the place branch *)
IntersectsPlayer(p, m) ==
    /\ 2 * Abs(m.tx * TILE_SIZE + TILE_SIZE \div 2 - p.x) < TILE_SIZE + PLAYER_WIDTH
    /\ 2 * Abs(m.ty * TILE_SIZE + TILE_SIZE \div 2 - p.y) < TILE_SIZE + PLAYER_HEIGHT

Mine(w, inv, m) ==
    LET t == getTile(w, m.tx, m.ty)
    IN  IF t # TILE_AIR
        THEN [world |-> setTile(w, m.tx, m.ty, TILE_AIR),
              inventory |-> Put(inv, t, Count(inv, t) + 1)]
        ELSE [world |-> w, inventory |-> inv]

(* Place as it would be without the intersectsX && intersectsY test. *)
PlaceInside(p, w, inv, m, hot) ==
    LET placeId == HOTBAR[hot + 1]
    IN  IF /\ placeId # TILE_AIR
           /\ getTile(w, m.tx, m.ty) = TILE_AIR
           /\ (Count(inv, placeId) > 0 \/ placeId = TILE_DIRT)
        THEN [world |-> setTile(w, m.tx, m.ty, placeId),
              inventory |-> IF placeId # TILE_DIRT
                            THEN Put(inv, placeId, Count(inv, placeId) - 1) ELSE inv]
        ELSE [world |-> w, inventory |-> inv]

Place(p, w, inv, m, hot) ==
    LET placeId == HOTBAR[hot + 1]
    IN  IF /\ placeId # TILE_AIR
           /\ getTile(w, m.tx, m.ty) = TILE_AIR
           /\ (Count(inv, placeId) > 0 \/ placeId = TILE_DIRT)
           /\ ~IntersectsPlayer(p, m)
        THEN [world |-> setTile(w, m.tx, m.ty, placeId),
              inventory |-> IF placeId # TILE_DIRT
                            THEN Put(inv, placeId, Count(inv, placeId) - 1) ELSE inv]
        ELSE [world |-> w, inventory |-> inv]

Interact(p, w, inv, m, hot) ==
    IF inReach(p, m) /\ m.left THEN Mine(w, inv, m)
    ELSE IF inReach(p, m) /\ m.right THEN Place(p, w, inv, m, hot)
    ELSE [world |-> w, inventory |-> inv]

----------------------------------------------------------------------------
(* The frame: the input state the handlers left, then update(dt). *)

NoDraws == [start |-> FALSE, kind |-> "rain", intensity |-> 0, duration |-> 0,
            keep |-> FALSE, weathered |-> <<>>, lightning |-> FALSE, damage |-> 0]

(* update(dt) with held keys k, mouse state m (the target tile as update   *)
(* derives it from the pointer and the camera), hotbar slot hot, and the   *)
(* outcomes rnd of the frame's random draws.  call.impact is the downward  *)
(* speed player.vy had, gravity added, in a step that grounds the player;  *)
(* call.struck tells whether the lightning branch called damagePlayer, and *)
(* call.amount with what amount it does.                                   *)
update(k, m, hot, dt, rnd) ==
    LET now == totalTime + dt
        wr  == updateWeather(weather, world, dt, rnd)
        ph  == updatePlayerHealth(player, wr.world, wr.weather, now, dt, rnd)
        pm  == Move(ph, wr.world, k)
        ir  == Interact(pm, wr.world, inventory, m, hot)
    IN  /\ keys' = k
        /\ mouse' = m
        /\ selectedHotbar' = hot
        /\ totalTime' = now
        /\ weather' = wr.weather
        /\ player' = pm
        /\ world' = ir.world
        /\ inventory' = ir.inventory
        /\ call' = [op |-> "update", dt |-> dt, started |-> wr.started,
                     impact |-> IF pm.onGround /\ ~ph.onGround
                                THEN Min(TERMINAL_VELOCITY, ph.vy + GRAVITY) ELSE 0,
                     struck |-> Lightning(player, wr.world, wr.weather, now, dt, rnd),
                     amount |-> IF Lightning(player, wr.world, wr.weather, now, dt, rnd)
                                THEN LIGHTNING_MIN + rnd.damage ELSE 0]
        /\ UNCHANGED <<calls, lastGen, storage, lastSave>>

(* Boot: generateWorld() and spawnPlayerOnSurface() on the constructed     *)
(* state (no save to load).                                                *)
FreshGame(seed) ==
    LET w == generateWorld(EmptyWorld, seed)
    IN  [world |-> w, player |-> spawnPlayerOnSurface(InitPlayer, w), inventory |-> <<>>]

Players == [x : Int, y : Int, vx : Int, vy : Int, onGround : BOOLEAN,
            wasOnGround : BOOLEAN, health : Int, maxHealth : Int,
            invulnerableTime : Int, lastDamageTime : Int]

(* The player of FreshGame once it has fallen to its first landing with no *)
(* input (after at most n frames). *)
SettleStates == [p : Players, w : Worlds, n : Nat]
Settle[st \in SettleStates] ==
    IF st.p.onGround \/ st.n = 0 THEN st.p
    ELSE Settle[[st EXCEPT !.p = Move(st.p, st.w, InitKeys), !.n = st.n - 1]]

SETTLE_FRAMES == 60     \* frames allowed for the first landing

(* Boot with a save: loadGame() restores grid, position, health and        *)
(* inventory of a game saved at that first landing; all else is as         *)
(* constructed.                                                            *)
LoadedGame(seed) ==
    LET g == FreshGame(seed)
        s == Settle[[p |-> g.player, w |-> g.world, n |-> SETTLE_FRAMES]]
    IN  [world |-> g.world,
         player |-> [InitPlayer EXCEPT !.x = s.x, !.y = s.y],
         inventory |-> g.inventory]

(* The constructed state: the module-level objects before boot. *)
Constructed == [world |-> EmptyWorld, player |-> InitPlayer, inventory |-> <<>>]

(* No item under the key: localStorage.getItem returns null. *)
NoSave == [kind |-> "null"]

(* The grid as JSON.stringify writes it: an array of WORLD_HEIGHT arrays   *)
(* of WORLD_WIDTH numbers (element i of a JSON array is [i + 1] here).     *)
GridArray(w) == [i \in 1 .. WORLD_HEIGHT |-> [j \in 1 .. WORLD_WIDTH |-> w[i - 1][j - 1]]]

(* JSON.stringify(saveData) of saveGame: the object it writes for grid w,  *)
(* player p and inventory inv.                                             *)
stringify(w, p, inv) ==
    [kind |-> "object",
     world |-> GridArray(w),
     player |-> [x |-> p.x, y |-> p.y, health |-> p.health, maxHealth |-> p.maxHealth],
     inventory |-> inv]

InitStored(g, item) ==
    /\ storage = item
    /\ lastSave = [made |-> FALSE]
    /\ world = g.world
    /\ player = g.player
    /\ inventory = g.inventory
    /\ totalTime = 0
    /\ weather = InitWeather
    /\ keys = InitKeys
    /\ mouse = InitMouse
    /\ selectedHotbar = 0
    /\ call = [op |-> "boot"]
    /\ calls = 0
    /\ lastGen = [variant |-> "none"]

(* The state after construction and boot g, with nothing stored. *)
InitGame(g) == InitStored(g, NoSave)

(* The same, booted from the save that the storage holds. *)
InitSaved(g) == InitStored(g, stringify(g.world, g.player, g.inventory))

(* The game after boot: a new world, or the save of its first landing. *)
Init == InitGame(FreshGame(DEFAULT_SEED)) \/ InitSaved(LoadedGame(DEFAULT_SEED))

----------------------------------------------------------------------------
(* Play: frames of dt = 1 under clear weather, with keys or the mouse.     *)

MAX_TIME == 3           \* frames of play that are followed

KEY_STATES == {[left |-> l, right |-> r, jump |-> j] :
                   l \in BOOLEAN, r \in {FALSE}, j \in BOOLEAN}
               \cup {[left |-> FALSE, right |-> TRUE, jump |-> FALSE]}

(* The target tiles the pointer is put on: the tile under the actor's      *)
(* centre tile, the centre tile itself, the tile beside it, and the column *)
(* just right of the grid.                                                 *)
Targets(p) ==
    LET ptx == p.x \div TILE_SIZE
        pty == p.y \div TILE_SIZE
    IN  {<<ptx, pty + 1>>, <<ptx, pty>>, <<ptx + 1, pty>>, <<WORLD_WIDTH, pty>>}

PLACE_SLOTS == {0, 1, 8}    \* Dirt, Stone, Air

Button(t, l, r) == [tx |-> t[1], ty |-> t[2], left |-> l, right |-> r]

(* A frame with keys held and no mouse button down. *)
KeyFrame ==
    /\ totalTime < MAX_TIME
    /\ \E k \in KEY_STATES :
        update(k, [mouse EXCEPT !.left = FALSE, !.right = FALSE], selectedHotbar, 1, NoDraws)

(* A frame with the left button down (the right one down or not). *)
MineFrame ==
    /\ totalTime < MAX_TIME
    /\ \E t \in Targets(player), r \in BOOLEAN :
        update(InitKeys, Button(t, TRUE, r), selectedHotbar, 1, NoDraws)

(* A frame with only the right button down, on a chosen hotbar slot. *)
PlaceFrame ==
    /\ totalTime < MAX_TIME
    /\ \E t \in Targets(player), hot \in PLACE_SLOTS :
        update(InitKeys, Button(t, FALSE, TRUE), hot, 1, NoDraws)

Next == KeyFrame \/ MineFrame \/ PlaceFrame

Spec == Init /\ [][Next]_vars

----------------------------------------------------------------------------
(* Digging: the player stands still, and mines the tile under its feet or  *)
(* does nothing, for long enough to dig to the bottom of the grid.         *)

MAX_DIG_TIME == 48      \* frames of digging that are followed

(* The tile whose top edge the actor's bottom edge is on or in. *)
Underfoot(p) == <<p.x \div TILE_SIZE, (p.y + PLAYER_HEIGHT \div 2) \div TILE_SIZE>>

IdleFrame ==
    /\ totalTime < MAX_DIG_TIME
    /\ update(InitKeys, [mouse EXCEPT !.left = FALSE, !.right = FALSE], selectedHotbar, 1, NoDraws)

DigFrame ==
    /\ totalTime < MAX_DIG_TIME
    /\ update(InitKeys, Button(Underfoot(player), TRUE, FALSE), selectedHotbar, 1, NoDraws)

(* A frame in which the player, standing, has one button down on the top   *)
(* tile of its column, the Dirt slot selected.                             *)
ReachFrame ==
    /\ totalTime < MAX_DIG_TIME
    /\ player.onGround
    /\ \E l \in BOOLEAN :
        update(InitKeys, Button(<<player.x \div TILE_SIZE, 0>>, l, ~l), 0, 1, NoDraws)

NextDig == IdleFrame \/ DigFrame \/ ReachFrame

SpecDig == Init /\ [][NextDig]_vars

----------------------------------------------------------------------------
(* Environment: frames of any length with the weather and lightning draws  *)
(* free, and no input.                                                     *)

MAX_ENV_TIME == 6       \* ticks of weather that are followed
LOW_HEALTH == 15        \* the health in a save made after several strikes
DT_LONG == 3            \* the longest frame, in ticks; Math.min(50, ts - last) / 16.6667

DELTAS == {0, 1, DT_LONG}

(* Boot with the save of a game that was also struck by lightning. *)
Hurt(g) ==
    [world |-> g.world, player |-> [g.player EXCEPT !.health = LOW_HEALTH],
     inventory |-> g.inventory]
HurtGame(seed) == Hurt(LoadedGame(seed))

InitEnv == InitSaved(LoadedGame(DEFAULT_SEED)) \/ InitSaved(HurtGame(DEFAULT_SEED))

(* The Sand tiles a rain drop can strike. *)
SandCells(w) == {c \in COLS \X ROWS : getTile(w, c[1], c[2]) = TILE_SAND}

(* The outcomes of startNewWeather's draws: intensity in tenths, the       *)
(* extremes of each range. *)
NewWeathers ==
    {[kind |-> "rain", intensity |-> i, duration |-> d] :
        i \in {3, 10}, d \in {0, RAIN_TIME_SPAN - 1}}
    \cup {[kind |-> "storm", intensity |-> i, duration |-> d] :
        i \in {6, 10}, d \in {0, STORM_TIME_SPAN - 1}}

(* The outcomes of the lightning draws: no strike, or one of either extreme. *)
Strikes == {<<FALSE, 0>>, <<TRUE, 0>>, <<TRUE, LIGHTNING_SPAN - 1>>}

Draw(s, n, k, c, l) ==
    [start |-> s, kind |-> n.kind, intensity |-> n.intensity, duration |-> n.duration,
     keep |-> k, weathered |-> c, lightning |-> l[1], damage |-> l[2]]

(* The outcomes of a frame's draws that can matter in weather wt: while an *)
(* episode runs, what its particles and the lightning do; in clear         *)
(* weather, whether and which weather starts.                              *)
Draws(wt, w) ==
    IF wt.timeLeft > 0
    THEN {Draw(FALSE, [kind |-> wt.type, intensity |-> 0, duration |-> 0], k, c, l) :
            k \in BOOLEAN,
            c \in IF wt.type = "rain" THEN {<<>>} \cup SandCells(w) ELSE {<<>>},
            l \in IF wt.type = "storm" THEN Strikes ELSE {<<FALSE, 0>>}}
    ELSE {NoDraws}
         \cup {Draw(TRUE, n, TRUE, <<>>, <<FALSE, 0>>) : n \in NewWeathers}
         \cup {Draw(TRUE, n, FALSE, <<>>, l) :
                 n \in {m \in NewWeathers : m.kind = "storm"}, l \in Strikes}

EnvFrame ==
    /\ totalTime < MAX_ENV_TIME
    /\ \E dt \in DELTAS : \E rnd \in Draws(weather, world) :
        update(InitKeys, InitMouse, selectedHotbar, dt, rnd)

NextEnv == EnvFrame

SpecEnv == InitEnv /\ [][NextEnv]_vars

----------------------------------------------------------------------------
(* The grid's operations called directly: generateWorld of either file on  *)
(* whatever the grid holds, getTile and setTile at coordinates in and      *)
(* around the grid.                                                        *)

NUM_SEEDS == 3
SEEDS == DEFAULT_SEED .. DEFAULT_SEED + NUM_SEEDS - 1

MAX_CALLS == 2          \* direct calls that are followed

(* The outcomes of main.js's Math.random() < 0.1 over the columns: never,  *)
(* or at exactly one column.                                               *)
COINS == {[x \in COLS |-> FALSE]} \cup {[x \in COLS |-> x = c] : c \in COLS}

EDGE_XS == {-1, 0, WORLD_WIDTH - 1, WORLD_WIDTH}
EDGE_YS == {-1, 0, WORLD_HEIGHT - 1, WORLD_HEIGHT}

InitWorld == InitGame(Constructed)

Called(c) ==
    /\ call' = c
    /\ calls' = calls + 1
    /\ UNCHANGED <<player, totalTime, weather, inventory, keys, mouse, selectedHotbar,
                    storage, lastSave>>

GenerateWorld ==
    /\ calls < MAX_CALLS
    /\ \E seed \in SEEDS :
        /\ world' = generateWorld(world, seed)
        /\ lastGen' = [variant |-> "part_001", seed |-> seed, grid |-> world']
        /\ Called([op |-> "generateWorld", variant |-> "part_001", seed |-> seed])

GenerateWorldMain ==
    /\ calls < MAX_CALLS
    /\ \E seed \in SEEDS, coins \in COINS :
        /\ world' = generateWorldMain(world, seed, coins)
        /\ lastGen' = [variant |-> "main.js", seed |-> seed, grid |-> world']
        /\ Called([op |-> "generateWorld", variant |-> "main.js", seed |-> seed])

GetTile ==
    /\ calls < MAX_CALLS
    /\ \E tx \in EDGE_XS, ty \in EDGE_YS :
        /\ Called([op |-> "getTile", tx |-> tx, ty |-> ty, ret |-> getTile(world, tx, ty)])
        /\ UNCHANGED <<world, lastGen>>

SetTile ==
    /\ calls < MAX_CALLS
    /\ \E tx \in EDGE_XS, ty \in EDGE_YS, id \in {TILE_AIR, TILE_BRICK} :
        /\ world' = setTile(world, tx, ty, id)
        /\ Called([op |-> "setTile", tx |-> tx, ty |-> ty, id |-> id])
        /\ UNCHANGED lastGen

(* spawnPlayerOnSurface() called on the grid generateWorld has just left. *)
SpawnPlayer ==
    /\ calls < MAX_CALLS
    /\ call.op = "generateWorld"
    /\ player' = spawnPlayerOnSurface(player, world)
    /\ call' = [op |-> "spawnPlayerOnSurface", variant |-> call.variant, seed |-> call.seed]
    /\ calls' = calls + 1
    /\ UNCHANGED <<world, lastGen, totalTime, weather, inventory, keys, mouse,
                    selectedHotbar, storage, lastSave>>

NextWorld == GenerateWorld \/ GenerateWorldMain \/ GetTile \/ SetTile \/ SpawnPlayer

SpecWorld == InitWorld /\ [][NextWorld]_vars

----------------------------------------------------------------------------
(* aabbVsTiles called directly, on a generated grid, for the player's box  *)
(* at positions flush with, centred in and sunk into the tiles.            *)

XS == {c * TILE_SIZE + o : c \in COLS,
           o \in {PLAYER_WIDTH \div 2, TILE_SIZE \div 2, TILE_SIZE - PLAYER_WIDTH \div 2}}
YS == {r * TILE_SIZE + o : r \in ROWS,
           o \in {2 * TILE_SIZE - PLAYER_HEIGHT \div 2,
                  2 * TILE_SIZE - PLAYER_HEIGHT \div 2 + GRAVITY,
                  PLAYER_HEIGHT \div 2}}
DXS == {-MAX_RUN_SPEED, 0, MAX_RUN_SPEED}
DYS == {JUMP_VELOCITY + GRAVITY, 0, GRAVITY, TERMINAL_VELOCITY}

Generated(seed) == [world |-> generateWorld(EmptyWorld, seed), player |-> InitPlayer,
                    inventory |-> <<>>]

InitResolve == \E seed \in SEEDS : InitGame(Generated(seed))

Resolve ==
    /\ call.op = "boot"
    /\ \E px \in XS, py \in YS, dx \in DXS, dy \in DYS :
        /\ call' = [op |-> "aabbVsTiles", px |-> px, py |-> py, dx |-> dx, dy |-> dy,
                     ret |-> aabbVsTiles(world, px, py, PLAYER_WIDTH, PLAYER_HEIGHT, dx, dy)]
        /\ UNCHANGED <<world, player, totalTime, weather, inventory, keys, mouse,
                        selectedHotbar, calls, lastGen, storage, lastSave>>

NextResolve == Resolve

SpecResolve == InitResolve /\ [][NextResolve]_vars

----------------------------------------------------------------------------
(* Save and load (F5, F9) between the frames of a game. *)

MAX_SAVE_TIME == 4      \* frames that are followed
MAX_SAVE_CALLS == 3     \* key presses and foreign writes that are followed

(* An item under the key that JSON.parse throws on. *)
Garbage == [kind |-> "text"]

(* saveGame: the item localStorage holds afterwards; setItem may throw     *)
(* (ok = FALSE), which saveGame catches, leaving the item as it was.       *)
saveGame(item, w, p, inv, ok) == IF ok THEN stringify(w, p, inv) ELSE item

(* The grid after the copy loops of loadGame have run over the rows that   *)
(* sd.world holds; at the first row it does not hold, sd.world[y][x]       *)
(* throws.                                                                 *)
LoadRows(sd, w) ==
    [y \in ROWS |-> IF y + 1 <= Len(sd.world)
                    THEN [x \in COLS |-> sd.world[y + 1][x + 1]]
                    ELSE w[y]]

LoadPlayer(sd, p) ==
    IF "player" \in DOMAIN sd
    THEN [p EXCEPT !.x = sd.player.x, !.y = sd.player.y,
                   !.health = sd.player.health, !.maxHealth = sd.player.maxHealth]
    ELSE p

LoadInventory(sd, inv) == IF "inventory" \in DOMAIN sd THEN sd.inventory ELSE inv

(* loadGame without the restore of the inventory. *)
loadGameNoInventory(item, w, p, inv) ==
    IF item.kind # "object" \/ "world" \notin DOMAIN item
    THEN [ret |-> FALSE, world |-> w, player |-> p, inventory |-> inv]
    ELSE IF Len(item.world) < WORLD_HEIGHT
    THEN [ret |-> FALSE, world |-> LoadRows(item, w), player |-> p, inventory |-> inv]
    ELSE [ret |-> TRUE, world |-> LoadRows(item, w), player |-> LoadPlayer(item, p),
          inventory |-> inv]

(* loadGame on the stored item: what it returns and the grid, player and   *)
(* inventory it leaves.                                                    *)
loadGame(item, w, p, inv) ==
    IF item.kind # "object" \/ "world" \notin DOMAIN item
    THEN [ret |-> FALSE, world |-> w, player |-> p, inventory |-> inv]
    ELSE IF Len(item.world) < WORLD_HEIGHT
    THEN [ret |-> FALSE, world |-> LoadRows(item, w), player |-> p, inventory |-> inv]
    ELSE [ret |-> TRUE, world |-> LoadRows(item, w), player |-> LoadPlayer(item, p),
          inventory |-> LoadInventory(item, inv)]

(* The record item without its field f. *)
Without(item, f) == [k \in DOMAIN item \ {f} |-> item[k]]

(* Items other than saveGame's that the key can hold: a save cut short     *)
(* after n rows, one without its player or its inventory, and text that    *)
(* is no JSON.                                                             *)
Malformed(item) ==
    {[item EXCEPT !.world = SubSeq(item.world, 1, n)] : n \in {1, WORLD_HEIGHT - 1}}
    \cup {Without(item, "player"), Without(item, "inventory"), Garbage}

(* The item is a save as saveGame writes it. *)
Whole(item) ==
    /\ item.kind = "object"
    /\ DOMAIN item = {"kind", "world", "player", "inventory"}
    /\ Len(item.world) = WORLD_HEIGHT

InitSave == InitGame(FreshGame(DEFAULT_SEED)) \/ InitSaved(HurtGame(DEFAULT_SEED))

KeyPressed(c) ==
    /\ call' = c
    /\ calls' = calls + 1
    /\ UNCHANGED <<totalTime, weather, keys, mouse, selectedHotbar, lastGen>>

(* A frame with no button down, or with the left button down on the tile   *)
(* under the player.                                                       *)
SaveFrame ==
    /\ totalTime < MAX_SAVE_TIME
    /\ \E l \in BOOLEAN :
        update(InitKeys, Button(Underfoot(player), l, FALSE), selectedHotbar, 1, NoDraws)

(* F5 *)
SaveGame ==
    /\ calls < MAX_SAVE_CALLS
    /\ \E ok \in BOOLEAN :
        /\ storage' = saveGame(storage, world, player, inventory, ok)
        /\ lastSave' = [made |-> TRUE, written |-> ok, world |-> world, player |-> player,
                        inventory |-> inventory]
        /\ KeyPressed([op |-> "saveGame", ok |-> ok])
        /\ UNCHANGED <<world, player, inventory>>

(* F9 *)
LoadGame ==
    /\ calls < MAX_SAVE_CALLS
    /\ world' = loadGame(storage, world, player, inventory).world
    /\ player' = loadGame(storage, world, player, inventory).player
    /\ inventory' = loadGame(storage, world, player, inventory).inventory
    /\ KeyPressed([op |-> "loadGame",
                   ret |-> loadGame(storage, world, player, inventory).ret,
                   given |-> [world |-> world, inventory |-> inventory]])
    /\ UNCHANGED <<storage, lastSave>>

(* The item is replaced from outside the game by a malformed one. *)
ForeignWrite ==
    /\ calls < MAX_SAVE_CALLS
    /\ Whole(storage)
    /\ storage' \in Malformed(storage)
    /\ lastSave' = [made |-> FALSE]
    /\ KeyPressed([op |-> "foreignWrite"])
    /\ UNCHANGED <<world, player, inventory>>

NextSave == SaveFrame \/ SaveGame \/ LoadGame \/ ForeignWrite

SpecSave == InitSave /\ [][NextSave]_vars

----------------------------------------------------------------------------
(* Weather over a shelter: the game was saved after the player mined the   *)
(* tile under its feet, landed one tile lower and put a Dirt block on the  *)
(* top tile of its column.                                                 *)

Roofed(g) ==
    [world |-> setTile(setTile(g.world, g.player.x \div TILE_SIZE,
                               (g.player.y + PLAYER_HEIGHT \div 2) \div TILE_SIZE, TILE_AIR),
                       g.player.x \div TILE_SIZE, 0, TILE_DIRT),
     player |-> [g.player EXCEPT !.y = g.player.y + TILE_SIZE],
     inventory |-> g.inventory]

RoofedGame(seed) == Roofed(LoadedGame(seed))

InitRoof == InitSaved(RoofedGame(DEFAULT_SEED))

SpecRoof == InitRoof /\ [][NextEnv]_vars

----------------------------------------------------------------------------
(* Falling.  A fall that reaches 0.8 * TERMINAL_VELOCITY is 173 px long,   *)
(* more than 7 tiles: the source's grid of 120 rows has such drops, the    *)
(* scaled grid has none.  The fall is therefore taken up near its end: the *)
(* player is in the air over the surface, with the speed the fall has      *)
(* given it so far.                                                        *)

MAX_FALL_TIME == 6      \* frames that are followed
FALL_SPEEDS == {0, TERMINAL_VELOCITY \div 2, (TERMINAL_VELOCITY * 8) \div 10,
                TERMINAL_VELOCITY - GRAVITY, TERMINAL_VELOCITY}
FALL_HEIGHTS == {GRAVITY, TILE_SIZE \div 2, TILE_SIZE, TILE_SIZE + TILE_SIZE \div 2}

(* Game g with the player h above its place, falling at speed vy. *)
Fall(g, vy, h) ==
    [world |-> g.world, inventory |-> g.inventory,
     player |-> [x |-> g.player.x, y |-> g.player.y - h, vx |-> 0, vy |-> vy,
                 onGround |-> FALSE, wasOnGround |-> FALSE,
                 health |-> g.player.health, maxHealth |-> g.player.maxHealth,
                 invulnerableTime |-> 0, lastDamageTime |-> 0]]

Falling(vy, h) == Fall(LoadedGame(DEFAULT_SEED), vy, h)

InitFall == \E vy \in FALL_SPEEDS, h \in FALL_HEIGHTS : InitSaved(Falling(vy, h))

(* A frame with no key down, the left button down or not on the tile under *)
(* the player.                                                             *)
FallFrame ==
    /\ totalTime < MAX_FALL_TIME
    /\ \E l \in BOOLEAN :
        update(InitKeys, Button(Underfoot(player), l, FALSE), selectedHotbar, 1, NoDraws)

NextFall == FallFrame

SpecFall == InitFall /\ [][NextFall]_vars

----------------------------------------------------------------------------
(* Running and jumping: frames with keys held and no button down, from     *)
(* boot or from the end of a fall, for long enough to reach the top speed. *)

MAX_RUN_TIME == 8       \* frames that are followed

(* Game g with the player at the top of the grid over its place, falling   *)
(* at speed vy.                                                            *)
FallFromTop(g, vy) == Fall(g, vy, g.player.y - PLAYER_HEIGHT \div 2)

InitRun ==
    \/ InitSaved(LoadedGame(DEFAULT_SEED))
    \/ InitSaved(FallFromTop(LoadedGame(DEFAULT_SEED), TERMINAL_VELOCITY - GRAVITY))

RunFrame ==
    /\ totalTime < MAX_RUN_TIME
    /\ \E k \in KEY_STATES :
        update(k, [mouse EXCEPT !.left = FALSE, !.right = FALSE], selectedHotbar, 1, NoDraws)

NextRun == RunFrame

SpecRun == InitRun /\ [][NextRun]_vars

----------------------------------------------------------------------------
(* Lighting in draw() (part_001:497-570).  A light factor f = 1 - dist /   *)
(* radius is kept as its shade (dist / radius)^2 in units of               *)
(* 1 / LIGHT_UNIT^2, an integer: f = 1 - sqrt(shade) / LIGHT_UNIT, so a    *)
(* larger factor is a smaller shade, factor 1 is shade 0 and factor 0 is   *)
(* shade NO_LIGHT.                                                         *)

PLAYER_LIGHT_RADIUS == 150 * PX
TORCH_LIGHT_RADIUS == 120 * PX
LIGHT_UNIT == 4 * PLAYER_LIGHT_RADIUS       \* a common multiple of the radii
NO_LIGHT == LIGHT_UNIT * LIGHT_UNIT

CeilDiv(a, b) == -((-a) \div b)

(* startX, endX, startY, endY: the visible tile bounds of camera cam. *)
Window(cam) ==
    [startX |-> Max(0, cam.x \div TILE_SIZE - 1),
     endX   |-> Min(WORLD_WIDTH, CeilDiv(cam.x + cam.width, TILE_SIZE) + 1),
     startY |-> Max(0, cam.y \div TILE_SIZE - 1),
     endY   |-> Min(WORLD_HEIGHT, CeilDiv(cam.y + cam.height, TILE_SIZE) + 1)]

InWindow(win, tx, ty) ==
    /\ win.startX <= tx /\ tx < win.endX
    /\ win.startY <= ty /\ ty < win.endY

TorchLight(tx, ty) ==
    [x |-> tx * TILE_SIZE + TILE_SIZE \div 2, y |-> ty * TILE_SIZE + TILE_SIZE \div 2,
     radius |-> TORCH_LIGHT_RADIUS]

(* The torch scan, rows outside, columns inside, from cell number i on. *)
RECURSIVE TorchSources(_, _, _)
TorchSources(w, win, i) ==
    IF i >= WORLD_WIDTH * WORLD_HEIGHT THEN <<>>
    ELSE (IF /\ InWindow(win, i % WORLD_WIDTH, i \div WORLD_WIDTH)
             /\ w[i \div WORLD_WIDTH][i % WORLD_WIDTH] = TILE_TORCH
          THEN <<TorchLight(i % WORLD_WIDTH, i \div WORLD_WIDTH)>> ELSE <<>>)
         \o TorchSources(w, win, i + 1)

lightSources(p, w, win, dark) ==
    <<[x |-> p.x, y |-> p.y, radius |-> PLAYER_LIGHT_RADIUS]>>
    \o (IF dark THEN TorchSources(w, win, 0) ELSE <<>>)

(* The squared distance of (tileX, tileY) from the source, as a shade. *)
Farness(tileX, tileY, source) ==
    (Abs(tileX - source.x) * Abs(tileX - source.x)
     + Abs(tileY - source.y) * Abs(tileY - source.y))
    * (LIGHT_UNIT \div source.radius) * (LIGHT_UNIT \div source.radius)

(* Math.max(0, Math.min(1, 1 - dist / source.radius)) *)
sourceLightFactor(tileX, tileY, source) ==
    Min(NO_LIGHT, Max(0, Farness(tileX, tileY, source)))

(* for (const source of lightSources) lightLevel = Math.max(lightLevel, f) *)
RECURSIVE LightLoop(_, _, _, _, _)
LightLoop(tileX, tileY, sources, i, level) ==
    IF i > Len(sources) THEN level
    ELSE LightLoop(tileX, tileY, sources, i + 1,
                   Min(level, sourceLightFactor(tileX, tileY, sources[i])))

(* The loop as it would be with lightLevel = sourceLightFactor in its body. *)
lightLevelLast(tileX, tileY, sources) ==
    sourceLightFactor(tileX, tileY, sources[Len(sources)])

lightLevel(tileX, tileY, sources) == LightLoop(tileX, tileY, sources, 1, NO_LIGHT)

(* The tiles draw() colours: those of the window that are not Air. *)
LitCells(w, win) ==
    {c \in COLS \X ROWS : InWindow(win, c[1], c[2]) /\ w[c[2]][c[1]] # TILE_AIR}

(* A camera that shows the whole grid, and a window one tile wide that has *)
(* the actor's tile at its left and top.                                   *)
Cameras(p) ==
    {[x |-> 0, y |-> 0, width |-> WORLD_WIDTH * TILE_SIZE, height |-> WORLD_HEIGHT * TILE_SIZE],
     [x |-> Max(0, Min(p.x, (WORLD_WIDTH - 1) * TILE_SIZE)),
      y |-> Max(0, Min(p.y, (WORLD_HEIGHT - 1) * TILE_SIZE)),
      width |-> TILE_SIZE, height |-> TILE_SIZE]}

MAX_LIGHT_TIME == 6     \* frames of torch placing that are followed
TORCH_SLOT == 6         \* HOTBAR[6] is TILE.TORCH

(* A game saved with four crafted torches in the inventory. *)
TorchGame(seed) ==
    LET g == LoadedGame(seed)
    IN  [world |-> g.world, player |-> g.player, inventory |-> Put(g.inventory, TILE_TORCH, 4)]

InitLight == InitSaved(TorchGame(DEFAULT_SEED))

(* The tiles torches are put on: the top corner, the top of the next two   *)
(* columns and the tile over the right part of the ground.                 *)
TorchTargets == {<<0, 0>>, <<1, 0>>, <<2, 0>>, <<WORLD_WIDTH - 2, 1>>}

(* frame(): update with the torch slot selected ... *)
LightFrame ==
    /\ totalTime < MAX_LIGHT_TIME
    /\ call.op # "update"
    /\ \E t \in TorchTargets, r \in BOOLEAN :
        update(InitKeys, Button(t, FALSE, r), TORCH_SLOT, 1, NoDraws)

(* ... and then draw(). *)
DrawFrame ==
    /\ call.op = "update"
    /\ \E cam \in Cameras(player) :
        LET dark == ~isDaytime(totalTime)
            win  == Window(cam)
            ls   == lightSources(player, world, win, dark)
        IN  call' = [op |-> "draw", dark |-> dark, camera |-> cam, lightSources |-> ls,
                     lightLevel |->
                        IF dark
                        THEN [c \in LitCells(world, win) |->
                                lightLevel(c[1] * TILE_SIZE + TILE_SIZE \div 2,
                                           c[2] * TILE_SIZE + TILE_SIZE \div 2, ls)]
                        ELSE <<>>]
    /\ UNCHANGED <<world, player, totalTime, weather, inventory, keys, mouse,
                    selectedHotbar, calls, lastGen, storage, lastSave>>

NextLight == LightFrame \/ DrawFrame

SpecLight == InitLight /\ [][NextLight]_vars

----------------------------------------------------------------------------
(* Crafting.  draw() calls drawCraftingMenu() while the menu is shown (the *)
(* C key toggles it); the menu applies a recipe when the left button is    *)
(* down with the pointer over the recipe's Craft button, which is drawn    *)
(* only when the recipe can be crafted.                                    *)

RECIPES ==
    <<[input |-> (TILE_SAND :> 2), output |-> (TILE_GLASS :> 1)],
      [input |-> (TILE_STONE :> 3), output |-> (TILE_BRICK :> 1)],
      [input |-> (TILE_WOOD :> 1 @@ TILE_STONE :> 1), output |-> (TILE_TORCH :> 4)]>>

(* The test as it would be did every recipe pass it. *)
canCraftAlways(inv, recipe) == TRUE

canCraft(inv, recipe) ==
    \A inputId \in DOMAIN recipe.input : Count(inv, inputId) >= recipe.input[inputId]

(* gameState.inventory[inputId] -= count, over the inputs (each input is   *)
(* a key of the inventory whenever canCraft held).                         *)
ConsumeInputs(inv, recipe) ==
    [k \in DOMAIN inv \cup DOMAIN recipe.input |->
        IF k \in DOMAIN recipe.input THEN Count(inv, k) - recipe.input[k] ELSE inv[k]]

(* gameState.inventory[outputId] = (gameState.inventory[outputId] || 0) +  *)
(* count, over the outputs.                                                *)
AddOutputs(inv, recipe) ==
    [k \in DOMAIN inv \cup DOMAIN recipe.output |->
        IF k \in DOMAIN recipe.output THEN Count(inv, k) + recipe.output[k] ELSE inv[k]]

(* drawCraftingMenu with the pointer over the Craft button of recipe       *)
(* number over (0: over none of them): the inventory and the mouse state   *)
(* it leaves, and whether it applied the recipe.  The buttons lie 40 px    *)
(* apart and are 20 px high, so the pointer is over at most one.           *)
drawCraftingMenu(inv, m, over) ==
    IF over # 0 /\ canCraft(inv, RECIPES[over]) /\ m.left
    THEN [inventory |-> AddOutputs(ConsumeInputs(inv, RECIPES[over]), RECIPES[over]),
          mouse |-> [m EXCEPT !.left = FALSE], crafted |-> TRUE]
    ELSE [inventory |-> inv, mouse |-> m, crafted |-> FALSE]

MAX_CRAFT_TIME == 5     \* frames that are followed

(* A game saved with a trunk tile and two Sand tiles mined. *)
Stocked(g) ==
    [world |-> g.world, player |-> g.player,
     inventory |-> Put(Put(g.inventory, TILE_WOOD, 1), TILE_SAND, 2)]

InitCraft == InitSaved(Stocked(LoadedGame(DEFAULT_SEED)))

(* The tiles the pointer is put on: the tile beside the player, and the    *)
(* column just right of the grid.                                          *)
CraftTargets(p) ==
    {<<p.x \div TILE_SIZE + 1, p.y \div TILE_SIZE>>, <<WORLD_WIDTH, p.y \div TILE_SIZE>>}

CRAFT_SLOTS == {0, 1, 4, 8}     \* Dirt, Stone, Brick, Air

(* A frame with the left button down. *)
CraftMineFrame ==
    /\ totalTime < MAX_CRAFT_TIME
    /\ \E t \in CraftTargets(player) :
        update(InitKeys, Button(t, TRUE, FALSE), selectedHotbar, 1, NoDraws)

(* A frame with the right button down on the tile beside the player, on a  *)
(* chosen hotbar slot.                                                     *)
CraftPlaceFrame ==
    /\ totalTime < MAX_CRAFT_TIME
    /\ \E hot \in CRAFT_SLOTS :
        update(InitKeys,
               Button(<<player.x \div TILE_SIZE + 1, player.y \div TILE_SIZE>>, FALSE, TRUE),
               hot, 1, NoDraws)

(* ... and then draw(), with the menu shown or not. *)
DrawMenu ==
    /\ call.op = "update"
    /\ \E shown \in BOOLEAN, over \in 0 .. Len(RECIPES) :
        /\ inventory' = IF shown THEN drawCraftingMenu(inventory, mouse, over).inventory
                         ELSE inventory
        /\ mouse' = IF shown THEN drawCraftingMenu(inventory, mouse, over).mouse ELSE mouse
        /\ call' = [op |-> "draw", shown |-> shown, over |-> over,
                     crafted |-> shown /\ drawCraftingMenu(inventory, mouse, over).crafted]
    /\ UNCHANGED <<world, player, totalTime, weather, keys, selectedHotbar, calls,
                    lastGen, storage, lastSave>>

NextCraft == CraftMineFrame \/ CraftPlaceFrame \/ DrawMenu

SpecCraft == InitCraft /\ [][NextCraft]_vars

----------------------------------------------------------------------------
(* Weather episodes to their end: frames with no input, no new frame being *)
(* taken up after MAX_WEATHER_TIME once the weather is clear;              *)
(* an episode that runs is followed until it is over.  The browser keeps   *)
(* calling frame() through requestAnimationFrame, and the timestamps of    *)
(* two calls differ: frames of positive delta keep occurring.              *)

MAX_WEATHER_TIME == 4   \* ticks within which episodes start

InitEpisode == InitSaved(LoadedGame(DEFAULT_SEED))

(* The outcomes of a frame's draws that decide the course of an episode:   *)
(* whether and which weather starts, and whether the particles stay; no    *)
(* drop strikes Sand and no lightning strikes.                             *)
EpisodeDraws(wt) ==
    IF wt.timeLeft > 0
    THEN {Draw(FALSE, [kind |-> wt.type, intensity |-> 0, duration |-> 0], k, <<>>,
               <<FALSE, 0>>) : k \in BOOLEAN}
    ELSE {NoDraws} \cup {Draw(TRUE, n, TRUE, <<>>, <<FALSE, 0>>) : n \in NewWeathers}

(* Frames are still followed. *)
FrameEnabled == totalTime < MAX_WEATHER_TIME \/ weather.type # "clear"

EpisodeFrame(dt) ==
    /\ FrameEnabled
    /\ \E rnd \in EpisodeDraws(weather) :
        update(InitKeys, InitMouse, selectedHotbar, dt, rnd)

(* A frame whose timestamp is that of the frame before. *)
ZeroFrame == EpisodeFrame(0)

PositiveFrame == \E dt \in DELTAS \ {0} : EpisodeFrame(dt)

NextEpisode == ZeroFrame \/ PositiveFrame

(* The simulated time advances by a positive delta: what a frame of        *)
(* positive delta does to gameState.totalTime, and no other step does.     *)
Elapse == FrameEnabled /\ totalTime' \in {totalTime + dt : dt \in DELTAS \ {0}}

SpecEpisode == InitEpisode /\ [][NextEpisode]_vars /\ WF_totalTime(Elapse)

----------------------------------------------------------------------------
(* Claims. *)

(* The box of a player p: its edges, in world units. *)
BoxLeft(p) == p.x - PLAYER_WIDTH \div 2
BoxRight(p) == p.x + PLAYER_WIDTH \div 2
BoxTop(p) == p.y - PLAYER_HEIGHT \div 2
BoxBottom(p) == p.y + PLAYER_HEIGHT \div 2

(* The footprint of tile (tx, ty) and the box of p share a positive area. *)
Overlaps(p, tx, ty) ==
    /\ BoxLeft(p) < (tx + 1) * TILE_SIZE
    /\ BoxRight(p) > tx * TILE_SIZE
    /\ BoxTop(p) < (ty + 1) * TILE_SIZE
    /\ BoxBottom(p) > ty * TILE_SIZE

(* The coordinates around the grid, two tiles out, that are not in it. *)
Outside ==
    {c \in (-2 .. WORLD_WIDTH + 1) \X (-2 .. WORLD_HEIGHT + 1) :
        c[1] < 0 \/ c[1] >= WORLD_WIDTH \/ c[2] < 0 \/ c[2] >= WORLD_HEIGHT}

(* C1: on every reachable grid and at every coordinate outside the grid,   *)
(* getTile returns Stone, which is solid, and setTile of any tile leaves   *)
(* the grid as it was.                                                     *)
C1_OutsideIsSolid ==
    \A c \in Outside :
        /\ getTile(world, c[1], c[2]) = TILE_STONE
        /\ isSolid(getTile(world, c[1], c[2]))
        /\ \A t \in TILES : setTile(world, c[1], c[2], t) = world

(* C1's case: setTile was called outside a grid that the generator filled. *)
C1_Witness ==
    /\ call.op = "setTile"
    /\ <<call.tx, call.ty>> \in Outside
    /\ lastGen.variant # "none"
    /\ world = lastGen.grid

(* C2: the player's box never extends beyond the rectangle of the grid,    *)
(* [0, WORLD_WIDTH * TILE_SIZE] x [0, WORLD_HEIGHT * TILE_SIZE].           *)
C2_InsideWorld ==
    /\ BoxLeft(player) >= 0
    /\ BoxRight(player) <= WORLD_WIDTH * TILE_SIZE
    /\ BoxTop(player) >= 0
    /\ BoxBottom(player) <= WORLD_HEIGHT * TILE_SIZE

(* C3: at the end of every step the player's box overlaps no solid tile of *)
(* the grid.                                                               *)
C3_NoOverlap ==
    \A tx \in COLS, ty \in ROWS :
        isSolid(getTile(world, tx, ty)) => ~Overlaps(player, tx, ty)

(* C4: a call of generateWorld with the seed of the previous call of the   *)
(* same file's generateWorld leaves the grid that call left, whatever the  *)
(* grid held before either.                                                *)
C4_Deterministic ==
    [][(/\ call'.op = "generateWorld"
        /\ lastGen.variant = call'.variant
        /\ lastGen.seed = call'.seed) => world' = lastGen.grid]_vars

(* C5: in a step where the left button is down on a target within reach:   *)
(* if the target held a tile t other than Air, the count of t rises by     *)
(* one, no other count changes and the target reads Air afterwards; if it  *)
(* held Air, neither grid nor inventory changes.  (No weather touches the  *)
(* grid in the steps of Spec.)                                             *)
C5_Mine ==
    [][(call'.op = "update" /\ mouse'.left /\ inReach(player', mouse')) =>
        LET t == getTile(world, mouse'.tx, mouse'.ty)
        IN  IF t # TILE_AIR
            THEN /\ \A k \in TILES :
                        Count(inventory', k)
                            = Count(inventory, k) + (IF k = t THEN 1 ELSE 0)
                 /\ getTile(world', mouse'.tx, mouse'.ty) = TILE_AIR
            ELSE world' = world /\ inventory' = inventory]_vars

(* The tile the selected hotbar slot holds. *)
Selected(hot) == HOTBAR[hot + 1]

(* C6: a step where only the right button is down leaves grid and          *)
(* inventory as they were whenever the target does not read Air (outside   *)
(* the grid it reads Stone), or the selected tile is Air, or the count of  *)
(* the selected tile is zero or absent and the tile is not Dirt, or the    *)
(* target's footprint overlaps the box the player has in that step.        *)
C6_PlaceRefused ==
    [][(/\ call'.op = "update" /\ mouse'.right /\ ~mouse'.left
        /\ \/ getTile(world, mouse'.tx, mouse'.ty) # TILE_AIR
           \/ Selected(selectedHotbar') = TILE_AIR
           \/ /\ Count(inventory, Selected(selectedHotbar')) = 0
              /\ Selected(selectedHotbar') # TILE_DIRT
           \/ Overlaps(player', mouse'.tx, mouse'.ty))
       => world' = world /\ inventory' = inventory]_vars

(* C6's case: Dirt was to be placed on an Air tile within reach that the   *)
(* player's box overlaps, and the tile is still Air.                       *)
C6_Witness ==
    /\ call.op = "update" /\ mouse.right /\ ~mouse.left
    /\ inReach(player, mouse)
    /\ Selected(selectedHotbar) = TILE_DIRT
    /\ Overlaps(player, mouse.tx, mouse.ty)
    /\ getTile(world, mouse.tx, mouse.ty) = TILE_AIR

(* C7: in every reachable state 0 <= player.health <= player.maxHealth. *)
C7_HealthInRange == 0 <= player.health /\ player.health <= player.maxHealth

(* C7's case: lightning has struck and regeneration has since added to the *)
(* health that was left.                                                   *)
C7_Witness ==
    /\ call.op = "update"
    /\ player.lastDamageTime > 0
    /\ totalTime - player.lastDamageTime > REGEN_DELAY
    /\ player.health > player.maxHealth - LIGHTNING_MIN
    /\ player.health < player.maxHealth

(* C8: the weather type changes only from clear or to clear, and no step   *)
(* calls startNewWeather while the type is not clear.                      *)
C8_Transitions ==
    [][/\ weather'.type # weather.type
            => weather.type = "clear" \/ weather'.type = "clear"
       /\ (call'.op = "update" /\ call'.started) => weather.type = "clear"]_vars

(* C8's case: a step has called startNewWeather and the type has changed   *)
(* from clear to storm.                                                    *)
C8_Witness ==
    /\ call.op = "update" /\ call.started
    /\ weather.type = "storm"
    /\ weather.timeLeft > 0

(* C9: while the type is rain or storm a step with positive dt strictly    *)
(* decreases timeLeft, and the step in which timeLeft becomes <= 0 ends    *)
(* with type clear, intensity 0 and no particle.                           *)
C9_Countdown ==
    [][/\ (call'.op = "update" /\ call'.dt > 0 /\ weather.type # "clear")
            => weather'.timeLeft < weather.timeLeft
       /\ (weather.timeLeft > 0 /\ weather'.timeLeft <= 0)
            => /\ weather'.type = "clear"
               /\ weather'.intensity = 0
               /\ weather'.particles = 0]_vars

(* C9's case: an episode has been counted down past zero. *)
C9_Witness ==
    /\ call.op = "update" /\ call.dt > 0
    /\ weather.type = "clear"
    /\ weather.timeLeft < 0

(* The box centred at (px, py) rests: its bottom edge is the top edge of a *)
(* row that holds a solid tile under the box's horizontal extent.          *)
Resting(w, px, py) ==
    /\ (py + PLAYER_HEIGHT \div 2) % TILE_SIZE = 0
    /\ \E tx \in -1 .. WORLD_WIDTH :
        /\ tx * TILE_SIZE < px + PLAYER_WIDTH \div 2
        /\ (tx + 1) * TILE_SIZE > px - PLAYER_WIDTH \div 2
        /\ isSolid(getTile(w, tx, (py + PLAYER_HEIGHT \div 2) \div TILE_SIZE))

(* aabbVsTiles was called for a resting box with dx = 0 and dy = 0. *)
RestCall ==
    /\ call.op = "aabbVsTiles"
    /\ call.dx = 0 /\ call.dy = 0
    /\ Resting(world, call.px, call.py)

(* C10: for a resting box, aabbVsTiles with dx = 0 and dy = 0 returns the  *)
(* unchanged position (x, y) with grounded = false and neither axis        *)
(* blocked: grounded is reported only by a downward collision.             *)
C10_RestUnchanged ==
    RestCall => /\ call.ret.x = call.px /\ call.ret.y = call.py
                /\ ~call.ret.grounded /\ ~call.ret.hitX /\ ~call.ret.hitY

(* C10 as stated: for a resting box, aabbVsTiles with dx = 0 and dy = 0    *)
(* returns grounded = true and the unchanged position.                     *)
C10_RestGrounded ==
    RestCall => /\ call.ret.grounded
                /\ call.ret.x = call.px /\ call.ret.y = call.py

(* C10's case: the call was made for a box resting on a tile of the grid.  *)
C10_Witness ==
    /\ RestCall
    /\ (call.py + PLAYER_HEIGHT \div 2) \div TILE_SIZE \in ROWS

(* The columns whose tiles share a positive width with a box centred at px. *)
ColumnsUnder(px) ==
    {tx \in -1 .. WORLD_WIDTH :
        /\ tx * TILE_SIZE < px + PLAYER_WIDTH \div 2
        /\ (tx + 1) * TILE_SIZE > px - PLAYER_WIDTH \div 2}

(* The rows at or below the bottom edge of a box centred at (px, py) that  *)
(* hold a solid tile under the box's horizontal extent.                    *)
RowsBelow(w, px, py) ==
    {ty \in 0 .. WORLD_HEIGHT :
        /\ ty * TILE_SIZE >= py + PLAYER_HEIGHT \div 2
        /\ \E tx \in ColumnsUnder(px) : isSolid(getTile(w, tx, ty))}

(* The first of them: the row the box would come to rest on. *)
FloorRow(w, px, py) ==
    CHOOSE ty \in RowsBelow(w, px, py) : \A tz \in RowsBelow(w, px, py) : ty <= tz

(* The gap between the box's bottom edge and the top edge of that row. *)
Gap(w, px, py) == FloorRow(w, px, py) * TILE_SIZE - (py + PLAYER_HEIGHT \div 2)

(* aabbVsTiles was called with dx = 0 and a downward dy that is at least   *)
(* the gap to the solid row under the box.                                 *)
DownCall ==
    /\ call.op = "aabbVsTiles"
    /\ call.dx = 0 /\ call.dy > 0
    /\ RowsBelow(world, call.px, call.py) # {}
    /\ call.dy >= Gap(world, call.px, call.py)

(* C11: for a box above a solid row with gap g >= 0 and every downward     *)
(* dy >= g, aabbVsTiles returns y = (row top edge - height/2) with         *)
(* grounded = true and hitY = true.                                        *)
C11_Snap ==
    DownCall =>
        /\ call.ret.y = FloorRow(world, call.px, call.py) * TILE_SIZE - PLAYER_HEIGHT \div 2
        /\ call.ret.grounded
        /\ call.ret.hitY

(* The rows of the world-centre column that hold a surface tile: Grass,   *)
(* or Sand as in a desert column.                                          *)
SurfaceRows(w) ==
    {y \in ROWS : getTile(w, WORLD_WIDTH \div 2, y) \in {TILE_GRASS, TILE_SAND}}

(* The first of them scanning downward from y = 0. *)
FirstSurface(w) == CHOOSE y \in SurfaceRows(w) : \A z \in SurfaceRows(w) : y <= z

(* C12: on a freshly generated grid, spawnPlayerOnSurface leaves the       *)
(* player's x at the world-centre column and its y at (ys - 2) *           *)
(* TILE_SIZE, ys the row of the first Grass tile, or Sand tile in a desert *)
(* column, of that column.                                                 *)
C12_SpawnOnSurface ==
    (call.op = "spawnPlayerOnSurface" /\ world = lastGen.grid) =>
        /\ SurfaceRows(world) # {}
        /\ player.x = (WORLD_WIDTH * TILE_SIZE) \div 2
        /\ player.y = (FirstSurface(world) - 2) * TILE_SIZE

(* The stored item is malformed: no JSON, or an object whose world has     *)
(* too few rows or that lacks its player or its inventory.                 *)
IsMalformed(item) ==
    \/ item.kind = "text"
    \/ /\ item.kind = "object"
       /\ \/ "world" \notin DOMAIN item
          \/ "player" \notin DOMAIN item
          \/ "inventory" \notin DOMAIN item
          \/ Len(item.world) < WORLD_HEIGHT

(* C13: loadGame on a malformed item reports failure and leaves the grid,  *)
(* the player's position, health and maxHealth and the inventory as they   *)
(* were.                                                                   *)
C13_AllOrNothing ==
    [][(call'.op = "loadGame" /\ IsMalformed(storage)) =>
        /\ ~call'.ret
        /\ world' = world
        /\ player'.x = player.x /\ player'.y = player.y
        /\ player'.health = player.health /\ player'.maxHealth = player.maxHealth
        /\ inventory' = inventory]_vars

(* The centre of tile c, and its squared distance from source s. *)
CentreX(c) == c[1] * TILE_SIZE + TILE_SIZE \div 2
CentreY(c) == c[2] * TILE_SIZE + TILE_SIZE \div 2
Dist2(c, s) ==
    (CentreX(c) - s.x) * (CentreX(c) - s.x) + (CentreY(c) - s.y) * (CentreY(c) - s.y)

(* The light sources the claim names for the drawn frame: the actor, and   *)
(* each Torch tile of the visible window.                                  *)
ActiveSources ==
    {[x |-> player.x, y |-> player.y, radius |-> PLAYER_LIGHT_RADIUS]}
    \cup {TorchLight(c[1], c[2]) :
            c \in {d \in COLS \X ROWS : /\ InWindow(Window(call.camera), d[1], d[2])
                                        /\ world[d[2]][d[1]] = TILE_TORCH}}

(* max(0, 1 - distance / radius) of source s at tile c, as a shade. *)
Contribution(c, s) ==
    IF Dist2(c, s) >= s.radius * s.radius THEN NO_LIGHT
    ELSE Dist2(c, s) * (LIGHT_UNIT \div s.radius) * (LIGHT_UNIT \div s.radius)

(* C14: at night the light level draw() computes for a tile is the largest *)
(* of the contributions max(0, 1 - distance / radius) of the actor (radius *)
(* 150) and the Torch tiles of the visible window (radius 120); it lies in *)
(* [0, 1]; the factor the code computes for one source is exactly 0 at     *)
(* distance = radius and exactly 1 at distance 0.                          *)
C14_LightLevel ==
    (call.op = "draw" /\ call.dark) =>
        \A c \in DOMAIN call.lightLevel :
            /\ \E s \in ActiveSources : call.lightLevel[c] = Contribution(c, s)
            /\ \A s \in ActiveSources : call.lightLevel[c] <= Contribution(c, s)
            /\ 0 <= call.lightLevel[c] /\ call.lightLevel[c] <= NO_LIGHT
            /\ \A i \in 1 .. Len(call.lightSources) :
                LET s == call.lightSources[i]
                IN  /\ Dist2(c, s) = s.radius * s.radius
                        => sourceLightFactor(CentreX(c), CentreY(c), s) = NO_LIGHT
                    /\ Dist2(c, s) = 0 => sourceLightFactor(CentreX(c), CentreY(c), s) = 0

(* A night frame is drawn with a torch in the window, a tile at exactly    *)
(* the torch's radius from it, the torch tile itself at distance 0, and a  *)
(* tile that the actor lights more than the torch does.                    *)
C14_Witness ==
    /\ call.op = "draw" /\ call.dark
    /\ Len(call.lightSources) >= 2
    /\ \E c \in DOMAIN call.lightLevel : \E i \in 2 .. Len(call.lightSources) :
        Dist2(c, call.lightSources[i]) = TORCH_LIGHT_RADIUS * TORCH_LIGHT_RADIUS
    /\ \E c \in DOMAIN call.lightLevel : call.lightLevel[c] = 0
    /\ \E c \in DOMAIN call.lightLevel :
        /\ call.lightLevel[c] < NO_LIGHT
        /\ call.lightLevel[c] <
             sourceLightFactor(CentreX(c), CentreY(c), call.lightSources[Len(call.lightSources)])

(* The grid, the actor's position, health and maxHealth and the inventory  *)
(* after the step are those the last saveGame was given.                   *)
Restored ==
    /\ world' = lastSave.world
    /\ player'.x = lastSave.player.x /\ player'.y = lastSave.player.y
    /\ player'.health = lastSave.player.health
    /\ player'.maxHealth = lastSave.player.maxHealth
    /\ inventory' = lastSave.inventory

BeyondReach(p, m) ==
    (m.tx * TILE_SIZE - p.x) * (m.tx * TILE_SIZE - p.x)
    + (m.ty * TILE_SIZE - p.y) * (m.ty * TILE_SIZE - p.y)
        > (REACH * TILE_SIZE) * (REACH * TILE_SIZE)

(* C16: in an update step whose target tile is farther than REACH (6)      *)
(* tiles from the actor's tile-space position, a held mine or place button *)
(* changes no grid cell and no inventory count.                            *)
C16_OutOfReach ==
    [][(call'.op = "update" /\ (mouse'.left \/ mouse'.right) /\ BeyondReach(player', mouse'))
        => world' = world /\ inventory' = inventory]_vars

(* The left button is down on a tile of the grid that is not Air and out   *)
(* of reach (the actor stands at the bottom of the shaft it dug, under a   *)
(* block it had placed on the top row).                                    *)
C16_Witness ==
    /\ call.op = "update" /\ mouse.left
    /\ BeyondReach(player, mouse)
    /\ inBounds(mouse.tx, mouse.ty) /\ getTile(world, mouse.tx, mouse.ty) # TILE_AIR

(* C17: in the update that follows a landing (the player is on the ground  *)
(* and was not at the start of the update before) whose downward speed     *)
(* before the impact was above 0.8 * TERMINAL_VELOCITY, a player that is   *)
(* not invulnerable loses health.                                          *)
C17_FallDamage ==
    [][(/\ call.op = "update" /\ call'.op = "update"
        /\ player.onGround /\ ~player.wasOnGround
        /\ call.impact * 10 > TERMINAL_VELOCITY * 8
        /\ player.invulnerableTime = 0)
        => player'.health < player.health]_vars

(* C18: damagePlayer called on a player whose invulnerableTime is positive *)
(* returns it unchanged; called otherwise it sets invulnerableTime to      *)
(* INVULNERABLE_TIME (1 s) and lastDamageTime to the current totalTime;    *)
(* and in every update in which lightning calls damagePlayer, the call     *)
(* changes nothing while the timer, counted down by dt, is positive, and   *)
(* an applied damage comes at least INVULNERABLE_TIME after the one before.*)
C18_Invulnerable ==
    [][/\ \A a \in {1, LIGHTNING_MIN, LIGHTNING_MIN + LIGHTNING_SPAN - 1} :
            IF player.invulnerableTime > 0
            THEN damagePlayer(player, a, totalTime) = player
            ELSE /\ damagePlayer(player, a, totalTime).invulnerableTime = INVULNERABLE_TIME
                 /\ damagePlayer(player, a, totalTime).lastDamageTime = totalTime
       /\ (call'.op = "update" /\ call'.struck /\ player.invulnerableTime > call'.dt)
            => /\ player'.health >= player.health
               /\ player'.lastDamageTime = player.lastDamageTime
               /\ player'.invulnerableTime = player.invulnerableTime - call'.dt
       /\ (call'.op = "update" /\ player'.lastDamageTime # player.lastDamageTime)
            => /\ player'.lastDamageTime = totalTime'
               /\ player'.invulnerableTime = INVULNERABLE_TIME
               /\ player.lastDamageTime > 0
                    => totalTime' - player.lastDamageTime >= INVULNERABLE_TIME]_vars

(* Lightning has called damagePlayer on a player still invulnerable from   *)
(* the strike of the frame before.                                         *)
C18_Witness ==
    /\ call.op = "update" /\ call.struck
    /\ player.invulnerableTime > 0
    /\ player.lastDamageTime > 0 /\ player.lastDamageTime < totalTime

(* C19: an update in which damage is applied (the player not invulnerable) *)
(* with an amount that is at least the health left ends with health =      *)
(* maxHealth, and every update ends with player.health > 0.                *)
C19_NoDeathState ==
    [][call'.op = "update" =>
        /\ player'.health > 0
        /\ (call'.struck /\ player.invulnerableTime <= call'.dt
                /\ player.health <= call'.amount)
            => /\ player'.health = player.maxHealth
               /\ player'.lastDamageTime = totalTime']_vars

(* Lightning has taken all the health that was left, and the update ended  *)
(* with full health.                                                       *)
C19_Witness ==
    /\ call.op = "update" /\ call.struck
    /\ player.lastDamageTime = totalTime
    /\ call.amount >= LOW_HEALTH
    /\ player.health = player.maxHealth

(* The rows of the grid above the tiles the actor's box is in. *)
RowsOverhead(p) == {ty \in ROWS : (ty + 1) * TILE_SIZE <= BoxTop(p)}

(* No tile above the actor in its column is solid. *)
OpenSky(w, p) ==
    \A ty \in RowsOverhead(p) : ~isSolid(getTile(w, p.x \div TILE_SIZE, ty))

(* C20: an update applies lightning damage only if the weather is a storm, *)
(* it is not daytime, and no tile above the actor in its column is solid.  *)
C20_Shelter ==
    [][(call'.op = "update" /\ call'.struck
            /\ player'.lastDamageTime # player.lastDamageTime)
        => /\ weather'.type = "storm"
           /\ ~isDaytime(totalTime')
           /\ OpenSky(world, player)]_vars

(* C21: a call with dx # 0 and dy # 0 returns, for y, grounded and hitY,   *)
(* what the vertical sweep alone gives from the horizontally resolved x,   *)
(* whether or not the horizontal sweep was blocked.                        *)
C21_BothSweeps ==
    (call.op = "aabbVsTiles" /\ call.dx # 0 /\ call.dy # 0) =>
        /\ call.ret.y = aabbVsTiles(world, call.ret.x, call.py, PLAYER_WIDTH,
                                    PLAYER_HEIGHT, 0, call.dy).y
        /\ call.ret.grounded = aabbVsTiles(world, call.ret.x, call.py, PLAYER_WIDTH,
                                           PLAYER_HEIGHT, 0, call.dy).grounded
        /\ call.ret.hitY = aabbVsTiles(world, call.ret.x, call.py, PLAYER_WIDTH,
                                       PLAYER_HEIGHT, 0, call.dy).hitY

(* The tiles of the grid and of the ring of out-of-grid tiles around it.   *)
NearTiles == (-1 .. WORLD_WIDTH) \X (-1 .. WORLD_HEIGHT)

(* A box centred at (px, py) shares a positive area with a solid tile.     *)
InSolid(w, px, py) ==
    \E c \in NearTiles :
        isSolid(getTile(w, c[1], c[2])) /\ Overlaps([x |-> px, y |-> py], c[1], c[2])

(* aabbVsTiles was called for a single sweep from a box that overlaps no   *)
(* solid tile, flush starts included.                                      *)
ClearSweep ==
    /\ call.op = "aabbVsTiles"
    /\ (call.dx = 0) # (call.dy = 0)
    /\ ~InSolid(world, call.px, call.py)

(* C22: a single sweep from a box that overlaps no solid tile returns a    *)
(* box that overlaps no solid tile: the leading edge is never carried into *)
(* or past a solid tile of the rows or columns the box spans.              *)
C22_NoTunnel ==
    ClearSweep => ~InSolid(world, call.ret.x, call.ret.y)

(* The motion part of update(dt): the velocity and position update reads   *)
(* the keys and the grid, and nowhere the frame's delta.                   *)
Motion(p, w, k, dt) == Move(p, w, k)

(* Two records agree in position and velocity. *)
SameMotion(p, q) == p.x = q.x /\ p.y = q.y /\ p.vx = q.vx /\ p.vy = q.vy

(* C23: from the state reached and under any held keys, two steps with     *)
(* dt = 1 leave the player's position and velocity where one step with     *)
(* dt = 2 leaves them.                                                     *)
C23_FrameRate ==
    \A k \in KEY_STATES :
        SameMotion(Motion(Motion(player, world, k, 1), world, k, 1),
                   Motion(player, world, k, 2))

(* The tile the sentence gives row y of a column with surface row s and    *)
(* biome b, the depths scaled as the generator's are.                      *)
LayerClaimed(y, s, b) ==
    IF y < s THEN TILE_AIR
    ELSE IF y = s THEN (IF b = "desert" THEN TILE_SAND ELSE TILE_GRASS)
    ELSE IF y <= s + STONE_DEPTH THEN (IF b = "desert" THEN TILE_SAND ELSE TILE_DIRT)
    ELSE TILE_STONE

(* The grid is the one generateWorld of part_001 has just left. *)
FreshGrid ==
    /\ call.op = "generateWorld"
    /\ call.variant = "part_001"

(* Column x of grid w is layered as the sentence says around surface row s *)
(* in biome b, but for cells that hold Stone or Wood, as the cells a patch *)
(* or a trunk rewrote do.                                                  *)
LayeredColumn(w, x, s, b) ==
    \A y \in ROWS : w[y][x] = LayerClaimed(y, s, b) \/ w[y][x] \in {TILE_STONE, TILE_WOOD}

LayeredGrid(w, hw) ==
    \A x \in COLS : LayeredColumn(w, x, hw.hs[x + 1], GenBiomes(hw.a).bs[x + 1])

(* C24: in the grid generateWorld has just left, every cell that holds     *)
(* neither Stone nor Wood holds the tile of its layer: Air above the       *)
(* surface row, the biome's surface tile on it, the biome's tile (Dirt in  *)
(* forest, Sand in desert) down to the stone depth, Stone below.           *)
C24_Layers ==
    FreshGrid => LayeredGrid(world, GenHeights(call.seed))

(* The rectangle of the patch main.js's generateWorld(seed) places at      *)
(* column c when Math.random() < 0.1 comes true there and at no column     *)
(* before it: sy, sh and sw are the first three draws after the heights.   *)
PatchRectFrom(c, groundY, r2, r3, r4) ==
    [x |-> c,
     sy |-> groundY + PATCH_MIN_DEPTH + RandInt(r2.u, PATCH_DEPTH_SPAN),
     sh |-> PATCH_MIN_H + RandInt(r3.u, PATCH_H_SPAN),
     sw |-> PATCH_MIN_W + RandInt(r4.u, PATCH_W_SPAN)]
PatchRect3(c, groundY, r2, r3) == PatchRectFrom(c, groundY, r2, r3, mulberry32[r3.a])
PatchRect2(c, groundY, r2) == PatchRect3(c, groundY, r2, mulberry32[r2.a])
PatchRectOf(c, hw) == PatchRect2(c, hw.hs[c + 1], mulberry32[hw.a])
PatchRect(seed, c) == PatchRectOf(c, GenHeights(seed))

(* The cells of rectangle r that lie in the grid. *)
RectCells(r) ==
    {d \in COLS \X ROWS :
        /\ d[1] >= r.x /\ d[1] < r.x + r.sw
        /\ d[2] >= r.sy /\ d[2] < r.sy + r.sh}

(* Every cell of r in grid w that is not Air is Stone. *)
RectStone(w, r) ==
    \A d \in RectCells(r) : w[d[2]][d[1]] \in {TILE_AIR, TILE_STONE}

(* The outcome of main.js's Math.random() < 0.1 that is true at column c   *)
(* only.                                                                   *)
CoinAt(c) == [x \in COLS |-> x = c]

(* C25: when the grid is the one main.js's generateWorld has just left     *)
(* with a patch placed at column c, every cell of the patch's rectangle    *)
(* that is not Air is Stone.                                               *)
C25_PatchStone ==
    (call.op = "generateWorld" /\ call.variant = "main.js") =>
        \A c \in COLS :
            world = generateWorldMain(EmptyWorld, call.seed, CoinAt(c)) =>
                RectStone(world, PatchRect(call.seed, c))

(* C26: at the end of every update step the player's horizontal speed is  *)
(* at most MAX_RUN_SPEED in either direction, and its vertical speed lies  *)
(* between JUMP_VELOCITY + GRAVITY and TERMINAL_VELOCITY.                  *)
C26_SpeedLimits ==
    call.op = "update" =>
        /\ Abs(player.vx) <= MAX_RUN_SPEED
        /\ player.vy <= TERMINAL_VELOCITY
        /\ player.vy >= JUMP_VELOCITY + GRAVITY

(* A step with the left key held has left the player at top speed to the   *)
(* left.                                                                   *)
C26_Witness ==
    /\ call.op = "update"
    /\ keys.left
    /\ player.vx = -MAX_RUN_SPEED

(* Every count of the inventory is a non-negative integer, and Air is no   *)
(* key of it.                                                              *)
CountsOK(inv) == \A t \in DOMAIN inv : t # TILE_AIR /\ inv[t] \in Nat

(* A step that lowers a count is an update that placed the selected tile,  *)
(* not Dirt, of which there was one at least, or a draw that applied a     *)
(* recipe of which every input was there in the amount required.           *)
Bookkeeping ==
    \A t \in TILES :
        Count(inventory', t) < Count(inventory, t) =>
            \/ /\ call'.op = "update"
               /\ t = HOTBAR[selectedHotbar' + 1]
               /\ t # TILE_DIRT
               /\ Count(inventory, t) > 0
               /\ Count(inventory', t) = Count(inventory, t) - 1
            \/ /\ call'.op = "draw"
               /\ call'.crafted
               /\ t \in DOMAIN RECIPES[call'.over].input
               /\ \A k \in DOMAIN RECIPES[call'.over].input :
                    /\ Count(inventory, k) >= RECIPES[call'.over].input[k]
                    /\ Count(inventory', k)
                         = Count(inventory, k) - RECIPES[call'.over].input[k]

(* C27: in every state every inventory count is a non-negative integer and *)
(* Air is no key; and a count falls only by a placement of a tile other    *)
(* than Dirt whose count was positive, or by a recipe whose every input    *)
(* was there in the required amount.                                       *)
C27_Inventory == [](CountsOK(inventory)) /\ [][Bookkeeping]_vars

(* A recipe has been applied and has used up an input. *)
C27_Witness ==
    /\ call.op = "draw"
    /\ call.crafted
    /\ \E t \in DOMAIN RECIPES[call.over].input : Count(inventory, t) = 0

(* The player stands: grounded, with no vertical speed, its bottom edge on *)
(* the top edge of a solid tile under it.                                  *)
Standing == player.onGround /\ player.vy = 0 /\ Resting(world, player.x, player.y)

(* An update step with no key held and no button down that leaves the grid *)
(* as it was.                                                              *)
QuietStep ==
    /\ call'.op = "update"
    /\ keys' = InitKeys
    /\ ~mouse'.left /\ ~mouse'.right
    /\ world' = world

(* C28: a quiet update step taken by the standing player leaves it         *)
(* grounded at the same y.                                                 *)
C28_StandingStable ==
    [][(Standing /\ QuietStep) => (player'.onGround /\ player'.y = player.y)]_vars

(* C29: when aabbVsTiles returns grounded = true, the returned box rests:   *)
(* its bottom edge is the top edge of a solid tile whose horizontal extent *)
(* shares a positive width with the box's.                                 *)
C29_GroundedOnTile ==
    (call.op = "aabbVsTiles" /\ call.ret.grounded) =>
        Resting(world, call.ret.x, call.ret.y)

(* The longest episode of the weather's type that startNewWeather draws.   *)
LongestEpisode(wt) ==
    IF wt.type = "rain" THEN RAIN_MIN_TIME + RAIN_TIME_SPAN
    ELSE STORM_MIN_TIME + STORM_TIME_SPAN

(* timeLeft is positive exactly while the type is not clear, and then at   *)
(* most the longest duration drawn for the type.                           *)
EpisodeClock ==
    /\ weather.timeLeft > 0 <=> weather.type # "clear"
    /\ weather.type # "clear" => weather.timeLeft <= LongestEpisode(weather)

(* The step ends the episode. *)
EpisodeOver == weather.type # "clear" /\ weather'.type = "clear"

(* C30 as stated: timeLeft > 0 exactly while the type is not clear; an     *)
(* episode is over when the simulated time reaches the end the draw set    *)
(* for it (the time of the start plus the drawn duration, which is         *)
(* totalTime + timeLeft in every state of the episode), and no later; and  *)
(* under frames of positive delta every episode is over eventually.        *)
C30_EndsOnTime ==
    /\ []EpisodeClock
    /\ [][EpisodeOver => totalTime' <= totalTime + weather.timeLeft]_vars
    /\ (weather.type # "clear") ~> (weather.type = "clear")

(* C30, amended: the episode is over at the end of the first step in which *)
(* the simulated time reaches the end the draw set for it, which is less   *)
(* than that step's delta after it.                                        *)
C30_EndsWithinStep ==
    /\ []EpisodeClock
    /\ [][/\ EpisodeOver => totalTime' >= totalTime + weather.timeLeft
          /\ (call'.op = "update" /\ weather.type # "clear"
                 /\ totalTime' >= totalTime + weather.timeLeft) => EpisodeOver]_vars
    /\ (weather.type # "clear") ~> (weather.type = "clear")

(* An episode is over, ended by a long frame that went past its end. *)
C30_Witness ==
    /\ call.op = "update" /\ call.dt = DT_LONG
    /\ weather.type = "clear"
    /\ weather.timeLeft < 0

====
